---- MODULE Spec2Model ----
(***************************************************************************)
(* DrawTogether: the room synchronization engine of src/app.py.            *)
(*                                                                         *)
(* The program is one asyncio event loop.  Every websocket connection runs *)
(* websocket_endpoint as its own task; a task runs without interruption    *)
(* from one `await` to the next.  An action of this model is one such run: *)
(* it resumes a task where it was suspended and executes its code up to    *)
(* and including the call that suspends it again (a send puts its message  *)
(* on the recipient's transport when it is called).                        *)
(*                                                                         *)
(* Python values: None is <<>>, a value that may be None is <<v>> where    *)
(* the code tests it; a dict with string keys is a function whose DOMAIN   *)
(* is its key set; the insertion-ordered dict rooms[room_id] is a sequence *)
(* of [uid, ws] entries.                                                   *)
(***************************************************************************)
EXTENDS Integers, Sequences, FiniteSets, TLC

(* ------------------------------------------------------------------ *)
(* Bounds of the model                                                 *)
(* ------------------------------------------------------------------ *)

\* Number of client events the connections may send in one run.
MaxEvents == 3

\* Number of client events in the fan-out scenario (three connections).
MaxFanEvents == 2

\* Seconds the clock advances in the conversation scenario.
MaxNow == 1

\* Number of client events in the conversation scenario.
MaxTalkEvents == 2

None == <<>>

Some(x) == <<x>>

(* ------------------------------------------------------------------ *)
(* Python containers                                                   *)
(* ------------------------------------------------------------------ *)

\* key in d, for the ordered dict rooms[room_id]
DictHas(d, k) == \E i \in 1..Len(d) : d[i].uid = k

\* d[k] = v: an existing key keeps its position, a new key goes last
DictSet(d, k, v) ==
    IF DictHas(d, k)
    THEN [i \in 1..Len(d) |-> IF d[i].uid = k THEN [uid |-> k, ws |-> v] ELSE d[i]]
    ELSE Append(d, [uid |-> k, ws |-> v])

DelKeep(e, k) == e.uid # k

\* del d[k]
DictDel(d, k) == SelectSeq(d, LAMBDA e : DelKeep(e, k))

\* f[k] = v for a dict modelled as a function
MapSet(f, k, v) == [x \in (DOMAIN f) \cup {k} |-> IF x = k THEN v ELSE f[x]]

\* del f[k]
MapDel(f, k) == [x \in (DOMAIN f) \ {k} |-> f[x]]

\* s[-n:]
LastN(s, n) == IF Len(s) <= n THEN s ELSE SubSeq(s, Len(s) - n + 1, Len(s))

\* s[:n]
FirstN(s, n) == IF Len(s) <= n THEN s ELSE SubSeq(s, 1, n)

\* s with its i-th element removed (list.pop(i) leaves this list)
RemoveAt(s, i) == SubSeq(s, 1, i - 1) \o SubSeq(s, i + 1, Len(s))

(* ------------------------------------------------------------------ *)
(* Data model                                                          *)
(* ------------------------------------------------------------------ *)

\* hashlib.sha256(password.encode()).hexdigest(): injective on the passwords
\* of the model, never the empty string, never the password itself
Sha256(password) == <<"sha256", password>>

\* password truthiness: None and "" are both falsy
Falsy(password) == password = None \/ password = Some("")

\* hashlib.sha256(...).hexdigest() if password else None
HashOrNone(password) == IF Falsy(password) THEN None ELSE Sha256(password[1])

Palette == <<"#FF6B6B", "#4ECDC4", "#45B7D1", "#96CEB4",
             "#FFEAA7", "#DDA0DD", "#98D8C8", "#F7DC6F",
             "#BB8FCE", "#85C1E9", "#F8B500", "#00CED1">>

DefaultLayer == [id |-> "layer_0", name |-> "Background", visible |-> TRUE,
                 locked |-> FALSE, opacity |-> 1, order |-> 0]

\* Room(id, name, layers=[layer_0], password_hash=...) with the dataclass defaults
NewRoom(room_id, password, t) ==
    [id |-> room_id, name |-> room_id, password_hash |-> HashOrNone(password),
     layers |-> <<DefaultLayer>>, strokes |-> <<>>, chat_messages |-> <<>>,
     timer_end |-> None, created_at |-> t, thumbnail |-> None]

NewStats(strokes, created, t) ==
    [total_strokes |-> strokes, total_users_joined |-> 0, active_users |-> 0,
     created_at |-> created, last_activity |-> t]

(* ------------------------------------------------------------------ *)
(* State                                                               *)
(* ------------------------------------------------------------------ *)

VARIABLES
    manager,    \* the ConnectionManager: rooms, user_info, room_data, room_stats, user_colors
    db,         \* the rooms table of drawings.db: room id -> saved row
    conn,       \* per connection: the position and the locals of its endpoint's task
    alive,      \* per connection: the client still holds the transport open
    inbox,      \* per connection: the messages sent to it, in sending order
    now,        \* datetime.now().timestamp()
    uuids,      \* number of uuid.uuid4() values drawn so far
    events      \* number of client events received so far

vars == <<manager, db, conn, alive, inbox, now, uuids, events>>

\* str(uuid.uuid4()): a fresh string each time, never one a client can send
Uuid4(n) == "uuid-" \o ToString(n)

(* ------------------------------------------------------------------ *)
(* ConnectionManager                                                   *)
(* ------------------------------------------------------------------ *)

\* _get_user_color: the assignment made (or kept) for user_id
WithUserColor(user_colors, user_id) ==
    IF user_id \notin DOMAIN user_colors
    THEN MapSet(user_colors, user_id,
                Palette[(Cardinality(DOMAIN user_colors) % Len(Palette)) + 1])
    ELSE user_colors

\* get_room_users
RoomUser(m, uid) ==
    [id |-> uid,
     nickname |-> IF uid \in DOMAIN m.user_info THEN m.user_info[uid].nickname ELSE "Anonymous",
     color |-> IF uid \in DOMAIN m.user_info THEN m.user_info[uid].color ELSE "#888888"]

get_room_users(m, room_id) ==
    IF room_id \in DOMAIN m.rooms
    THEN [i \in 1..Len(m.rooms[room_id]) |-> RoomUser(m, m.rooms[room_id][i].uid)]
    ELSE <<>>

\* the password check keyed on the sessions dict instead of room_data: a
\* room that is loaded but has no session yet is not checked
PasswordRejected_RoomsKey(m, room_id, password) ==
    /\ room_id \in DOMAIN m.rooms
    /\ room_id \in DOMAIN m.room_data
    /\ m.room_data[room_id].password_hash # None
    /\ (Falsy(password) \/ Sha256(password[1]) # m.room_data[room_id].password_hash)

\* the password check of connect: TRUE when the join is refused
PasswordRejected(m, room_id, password) ==
    /\ room_id \in DOMAIN m.room_data
    /\ m.room_data[room_id].password_hash # None
    /\ (Falsy(password) \/ Sha256(password[1]) # m.room_data[room_id].password_hash)

\* connect, lines 104-118: the room is created when rooms has no entry for it
EnsureRoom(m, room_id, password, t) ==
    IF room_id \notin DOMAIN m.rooms
    THEN [m EXCEPT !.rooms = MapSet(@, room_id, <<>>),
                   !.room_data = MapSet(@, room_id, NewRoom(room_id, password, t)),
                   !.room_stats = MapSet(@, room_id, NewStats(0, t, t))]
    ELSE m

\* connect, lines 120-130: the session is registered and the stats updated
Register(m, ws, room_id, user_id, nickname, t) ==
    LET colors == WithUserColor(m.user_colors, user_id)
        sessions == DictSet(m.rooms[room_id], user_id, ws)
    IN  [m EXCEPT !.rooms[room_id] = sessions,
                  !.user_colors = colors,
                  !.user_info = MapSet(@, user_id,
                       [nickname |-> nickname, room_id |-> room_id, color |-> colors[user_id]]),
                  !.room_stats[room_id] =
                       [@ EXCEPT !.total_users_joined = @ + 1,
                                 !.active_users = Len(sessions),
                                 !.last_activity = t]]

\* disconnect that drops the user_info entry before it looks for the session
disconnect_PopFirst(m, room_id, user_id) ==
    IF room_id \in DOMAIN m.rooms /\ DictHas(m.rooms[room_id], user_id)
    THEN LET sessions == DictDel(m.rooms[room_id], user_id)
         IN  [m |-> [m EXCEPT !.rooms[room_id] = sessions,
                              !.user_info = MapDel(@, user_id),
                              !.room_stats =
                                  IF room_id \in DOMAIN @
                                  THEN [@ EXCEPT ![room_id].active_users = Len(sessions)]
                                  ELSE @],
              ret |-> IF user_id \in DOMAIN m.user_info
                      THEN Some(m.user_info[user_id].nickname) ELSE Some("Unknown"),
              raised |-> FALSE]
    ELSE [m |-> [m EXCEPT !.user_info = MapDel(@, user_id)], ret |-> None, raised |-> FALSE]

\* disconnect: the manager afterwards, the value returned, and whether
\* `del self.user_info[user_id]` raised KeyError (the session entry is
\* deleted before that line)
disconnect(m, room_id, user_id) ==
    IF room_id \in DOMAIN m.rooms /\ DictHas(m.rooms[room_id], user_id)
    THEN LET sessions == DictDel(m.rooms[room_id], user_id)
             m1 == [m EXCEPT !.rooms[room_id] = sessions]
         IN  IF user_id \notin DOMAIN m.user_info
             THEN [m |-> m1, ret |-> None, raised |-> TRUE]
             ELSE [m |-> [m1 EXCEPT !.user_info = MapDel(@, user_id),
                                    !.room_stats =
                                        IF room_id \in DOMAIN @
                                        THEN [@ EXCEPT ![room_id].active_users = Len(sessions)]
                                        ELSE @],
                   ret |-> Some(m.user_info[user_id].nickname),
                   raised |-> FALSE]
    ELSE [m |-> m, ret |-> None, raised |-> FALSE]

\* broadcast, lines 195-196: disconnect every session whose send failed,
\* stopping at the first one that raises
RECURSIVE DisconnectAll(_, _, _)
DisconnectAll(m, room_id, failed) ==
    IF failed = <<>>
    THEN [m |-> m, raised |-> FALSE]
    ELSE LET r == disconnect(m, room_id, Head(failed))
         IN  IF r.raised
             THEN [m |-> r.m, raised |-> TRUE]
             ELSE DisconnectAll(r.m, room_id, Tail(failed))

(* ------------------------------------------------------------------ *)
(* Outbound messages                                                   *)
(* ------------------------------------------------------------------ *)

ErrorMessage == [type |-> "error", message |-> "Invalid password"]

UserJoinedMessage(m, room_id, user_id, nickname) ==
    [type |-> "user_joined", user_id |-> user_id, nickname |-> nickname,
     color |-> m.user_info[user_id].color, users |-> get_room_users(m, room_id)]

UserLeftMessage(m, room_id, user_id, nickname) ==
    [type |-> "user_left", user_id |-> user_id, nickname |-> nickname,
     users |-> get_room_users(m, room_id)]

\* an init that skips the oldest stroke: room.strokes[1:]
InitStrokes_Slice(room) == IF room.strokes = <<>> THEN <<>> ELSE Tail(room.strokes)

\* the strokes an init message carries
InitStrokes(room) == room.strokes

\* an init that describes the room with all its fields, the hash included
InitMessage_WithHash(m, room_id, user_id) ==
    LET room == m.room_data[room_id]
    IN  [type |-> "init",
         room |-> [id |-> room.id, name |-> room.name,
                   has_password |-> room.password_hash # None,
                   password_hash |-> room.password_hash,
                   layers |-> room.layers,
                   strokes |-> InitStrokes(room),
                   chat_messages |-> LastN(room.chat_messages, 50),
                   timer_end |-> room.timer_end],
         users |-> get_room_users(m, room_id),
         stats |-> m.room_stats[room_id],
         your_color |-> m.user_info[user_id].color]

\* connect, lines 141-157
InitMessage(m, room_id, user_id) ==
    LET room == m.room_data[room_id]
    IN  [type |-> "init",
         room |-> [id |-> room.id, name |-> room.name,
                   has_password |-> room.password_hash # None,
                   layers |-> room.layers,
                   strokes |-> InitStrokes(room),
                   chat_messages |-> LastN(room.chat_messages, 50),
                   timer_end |-> room.timer_end],
         users |-> get_room_users(m, room_id),
         stats |-> m.room_stats[room_id],
         your_color |-> m.user_info[user_id].color]

(* ------------------------------------------------------------------ *)
(* A task run: from a resumption to the next suspension                *)
(* ------------------------------------------------------------------ *)

\* The result of a run of the task of connection c: the manager, the
\* inboxes, the transports and the task's own record k afterwards.
Outcome(m, inb, al, k) == [m |-> m, inbox |-> inb, alive |-> al, k |-> k]

Idle(k, pc) == [k EXCEPT !.pc = pc, !.pend = <<>>, !.msg = None,
                         !.failed = <<>>, !.cont = "none", !.room = None, !.row = None]

\* an exception leaves websocket_endpoint: the task ends, the server
\* closes the transport, and nothing unregisters the session
Crash(c, k, m, inb, al) ==
    Outcome(m, inb, [al EXCEPT ![c] = FALSE], Idle(k, "crashed"))

\* what the task does once a broadcast has returned
After(c, k, m, inb, al, cont) ==
    CASE cont = "init" ->
            \* connect, lines 141-159, then the receive loop
            IF al[c] /\ k.user_id \in DOMAIN m.user_info
            THEN Outcome(m, [inb EXCEPT ![c] = Append(@, InitMessage(m, k.room_id, k.user_id))],
                         al, Idle(k, "recv"))
            ELSE Crash(c, k, m, inb, al)
      [] cont = "save" ->
            \* websocket_endpoint, lines 496-498
            IF k.room_id \in DOMAIN m.room_data
            THEN Outcome(m, inb, al, Idle(k, "save"))
            ELSE Outcome(m, inb, al, Idle(k, "done"))
      [] OTHER ->
            \* handle_message returns to the receive loop
            Outcome(m, inb, al, Idle(k, "recv"))

\* broadcast, lines 195-196, and the code after the broadcast
Prune(c, k, m, inb, al, failed, cont) ==
    LET r == DisconnectAll(m, k.room_id, failed)
    IN  IF r.raised THEN Crash(c, k, r.m, inb, al)
        ELSE After(c, k, r.m, inb, al, cont)

\* broadcast, lines 190-193: ws.send_json to the first pending recipient;
\* the task is suspended in that send
SendNext(c, k, m, inb, al, pend, msg, failed, cont) ==
    LET e == Head(pend)
    IN  Outcome(m,
                IF al[e.ws] THEN [inb EXCEPT ![e.ws] = Append(@, msg)] ELSE inb,
                al,
                [k EXCEPT !.pc = "bcast", !.pend = pend, !.msg = Some(msg),
                          !.failed = IF al[e.ws] THEN failed ELSE Append(failed, e.uid),
                          !.cont = cont])

\* the recipients of a broadcast: the snapshot list(self.rooms[room_id].items())
\* without the excluded user id
Recipients(sessions, exclude) ==
    SelectSeq(sessions, LAMBDA e : Some(e.uid) # exclude)

\* broadcast, lines 184-193: from the call to the first send, or to the
\* end when there is nobody to send to (then no suspension happens)
Broadcast(c, k, m, inb, al, msg, exclude, cont) ==
    IF k.room_id \notin DOMAIN m.rooms
    THEN After(c, k, m, inb, al, cont)
    ELSE LET pend == Recipients(m.rooms[k.room_id], exclude)
         IN  IF pend = <<>>
             THEN Prune(c, k, m, inb, al, <<>>, cont)
             ELSE SendNext(c, k, m, inb, al, pend, msg, <<>>, cont)

Commit(o, c) ==
    /\ manager' = o.m
    /\ inbox' = o.inbox
    /\ alive' = o.alive
    /\ conn' = [conn EXCEPT ![c] = o.k]

(* ------------------------------------------------------------------ *)
(* ConnectionManager: room state                                       *)
(* ------------------------------------------------------------------ *)

add_stroke(m, room_id, stroke, t) ==
    IF room_id \in DOMAIN m.room_data
    THEN [m EXCEPT !.room_data[room_id].strokes = Append(@, stroke),
                   !.room_stats =
                       IF room_id \in DOMAIN @
                       THEN [@ EXCEPT ![room_id].total_strokes = @ + 1,
                                      ![room_id].last_activity = t]
                       ELSE @]
    ELSE m

\* the scan run oldest to newest: the first stroke of user_id, 0 if none
FirstStrokeOf(strokes, user_id) ==
    LET own == {i \in 1..Len(strokes) : strokes[i].user_id = user_id}
    IN  IF own = {} THEN 0 ELSE CHOOSE i \in own : \A j \in own : i <= j

\* the index remove_last_stroke pops: the last stroke of user_id, 0 if none
LastStrokeOf(strokes, user_id) ==
    LET own == {i \in 1..Len(strokes) : strokes[i].user_id = user_id}
    IN  IF own = {} THEN 0 ELSE CHOOSE i \in own : \A j \in own : j <= i

\* remove_last_stroke: the manager afterwards and the stroke returned
remove_last_stroke(m, room_id, user_id) ==
    IF room_id \notin DOMAIN m.room_data
    THEN [m |-> m, ret |-> None]
    ELSE LET strokes == m.room_data[room_id].strokes
             i == LastStrokeOf(strokes, user_id)
         IN  IF i = 0 THEN [m |-> m, ret |-> None]
             ELSE [m |-> [m EXCEPT !.room_data[room_id].strokes = RemoveAt(strokes, i)],
                   ret |-> Some(strokes[i])]

add_layer(m, room_id, layer) ==
    IF room_id \in DOMAIN m.room_data
    THEN [m EXCEPT !.room_data[room_id].layers = Append(@, layer)]
    ELSE m

\* the comprehension with its test inverted: keeps the layer it should clear
ClearKeep_Inverted(s, layer_id) == s.layer_id = layer_id

\* the strokes clear_layer keeps
ClearKeep(s, layer_id) == s.layer_id # layer_id

clear_layer(m, room_id, layer_id) ==
    IF room_id \in DOMAIN m.room_data
    THEN [m EXCEPT !.room_data[room_id].strokes =
                       SelectSeq(@, LAMBDA s : ClearKeep(s, layer_id))]
    ELSE m

add_chat_message(m, room_id, message) ==
    IF room_id \in DOMAIN m.room_data
    THEN [m EXCEPT !.room_data[room_id].chat_messages = LastN(Append(@, message), 100)]
    ELSE m

set_timer(m, room_id, duration_seconds, t) ==
    IF room_id \in DOMAIN m.room_data
    THEN [m |-> [m EXCEPT !.room_data[room_id].timer_end = Some(t + duration_seconds)],
          ret |-> Some(t + duration_seconds)]
    ELSE [m |-> m, ret |-> None]

clear_timer(m, room_id) ==
    IF room_id \in DOMAIN m.room_data
    THEN [m EXCEPT !.room_data[room_id].timer_end = None]
    ELSE m

(* ------------------------------------------------------------------ *)
(* handle_message                                                      *)
(* ------------------------------------------------------------------ *)

\* data.get(key, default)
Get(data, key, default) == IF key \in DOMAIN data THEN data[key] ELSE default

\* the larger of the two in the place of min
Min_Larger(a, b) == IF a <= b THEN b ELSE a

\* min(a, b)
Min(a, b) == IF a <= b THEN a ELSE b

\* a dispatch that looks every kind up and raises KeyError for a kind it
\* does not know
Required_Closed(type) ==
    CASE type = "stroke" -> {"points", "color", "size"}
      [] type = "clear_layer" -> {"layer_id"}
      [] type = "cursor" -> {"x", "y"}
      [] type = "chat" -> {"text"}
      [] type \in {"undo", "add_layer", "start_timer", "stop_timer",
                   "save_thumbnail", "reaction"} -> {}
      [] OTHER -> {"handler"}

\* the keys data[...] reads for each kind: a missing one raises KeyError
Required(type) ==
    CASE type = "stroke" -> {"points", "color", "size"}
      [] type = "clear_layer" -> {"layer_id"}
      [] type = "cursor" -> {"x", "y"}
      [] type = "chat" -> {"text"}
      [] OTHER -> {}

\* the user_id field of the Stroke handle_message builds
StrokeAuthor(user_id, data) == user_id

NewStroke(user_id, data, t, n) ==
    [id |-> Get(data, "id", Uuid4(n)),
     user_id |-> StrokeAuthor(user_id, data),
     points |-> data.points, color |-> data.color, size |-> data.size,
     layer_id |-> Get(data, "layer_id", "layer_0"),
     timestamp |-> t,
     tool |-> Get(data, "tool", "brush")]

\* the Layer built with an order that counts from one
NewLayer_OrderFromOne(m, room_id, data, n) ==
    [id |-> Get(data, "id", "layer_" \o Uuid4(n)),
     name |-> Get(data, "name", "New Layer"),
     visible |-> TRUE, locked |-> FALSE, opacity |-> 1,
     order |-> Len(m.room_data[room_id].layers) + 1]

\* the Layer handle_message builds
NewLayer(m, room_id, data, n) ==
    [id |-> Get(data, "id", "layer_" \o Uuid4(n)),
     name |-> Get(data, "name", "New Layer"),
     visible |-> TRUE, locked |-> FALSE, opacity |-> 1,
     order |-> Len(m.room_data[room_id].layers)]

\* the ChatMessage built with the text as it was received
NewChatMessage_NoCut(k, data, t, n) ==
    [id |-> Uuid4(n), user_id |-> k.user_id, nickname |-> k.nickname,
     text |-> data.text, timestamp |-> t]

\* the ChatMessage handle_message builds
NewChatMessage(k, data, t, n) ==
    [id |-> Uuid4(n), user_id |-> k.user_id, nickname |-> k.nickname,
     text |-> FirstN(data.text, 500), timestamp |-> t]

\* handle_message(room_id, user_id, nickname, data), up to its first
\* suspension: n is the index of the uuid it may draw, t the time
handle_message(c, k, m, inb, al, data, t, n) ==
    LET type == Get(data, "type", "")
        room_id == k.room_id
        user_id == k.user_id
    IN
    IF ~(Required(type) \subseteq DOMAIN data)
    THEN Crash(c, k, m, inb, al)
    ELSE
    CASE type = "stroke" ->
            LET stroke == NewStroke(user_id, data, t, n)
            IN  Broadcast(c, k, add_stroke(m, room_id, stroke, t), inb, al,
                          [type |-> "stroke", stroke |-> stroke], Some(user_id), "recv")
      [] type = "undo" ->
            LET r == remove_last_stroke(m, room_id, user_id)
            IN  IF r.ret # None
                THEN Broadcast(c, k, r.m, inb, al,
                               [type |-> "remove_stroke", stroke_id |-> r.ret[1].id],
                               None, "recv")
                ELSE Outcome(r.m, inb, al, Idle(k, "recv"))
      [] type = "add_layer" ->
            IF room_id \notin DOMAIN m.room_data
            THEN Crash(c, k, m, inb, al)
            ELSE LET layer == NewLayer(m, room_id, data, n)
                 IN  Broadcast(c, k, add_layer(m, room_id, layer), inb, al,
                               [type |-> "layer_added", layer |-> layer], None, "recv")
      [] type = "clear_layer" ->
            Broadcast(c, k, clear_layer(m, room_id, data.layer_id), inb, al,
                      [type |-> "layer_cleared", layer_id |-> data.layer_id], None, "recv")
      [] type = "cursor" ->
            Broadcast(c, k, m, inb, al,
                      [type |-> "cursor", user_id |-> user_id, x |-> data.x, y |-> data.y,
                       color |-> IF user_id \in DOMAIN m.user_info
                                 THEN m.user_info[user_id].color ELSE "#888"],
                      Some(user_id), "recv")
      [] type = "chat" ->
            LET message == NewChatMessage(k, data, t, n)
            IN  Broadcast(c, k, add_chat_message(m, room_id, message), inb, al,
                          [type |-> "chat", message |-> message], None, "recv")
      [] type = "start_timer" ->
            LET duration == Min(Get(data, "duration", 300), 3600)
                r == set_timer(m, room_id, duration, t)
            IN  Broadcast(c, k, r.m, inb, al,
                          [type |-> "timer_started", timer_end |-> r.ret,
                           duration |-> duration], None, "recv")
      [] type = "stop_timer" ->
            Broadcast(c, k, clear_timer(m, room_id), inb, al,
                      [type |-> "timer_stopped"], None, "recv")
      [] type = "save_thumbnail" ->
            Outcome(IF room_id \in DOMAIN m.room_data
                    THEN [m EXCEPT !.room_data[room_id].thumbnail =
                                       Some(FirstN(Get(data, "thumbnail", ""), 50000))]
                    ELSE m,
                    inb, al, Idle(k, "recv"))
      [] type = "reaction" ->
            Broadcast(c, k, m, inb, al,
                      [type |-> "reaction", user_id |-> user_id,
                       emoji |-> Get(data, "emoji", "thumbs_up"),
                       x |-> Get(data, "x", 0), y |-> Get(data, "y", 0)], None, "recv")
      [] OTHER -> Outcome(m, inb, al, Idle(k, "recv"))

\* the uuid.uuid4() calls of handle_message for one event
UuidsDrawn(data) ==
    IF Get(data, "type", "") \in {"stroke", "add_layer", "chat"} THEN 1 ELSE 0

(* ------------------------------------------------------------------ *)
(* Persistence                                                         *)
(* ------------------------------------------------------------------ *)

\* save_room: the row written for a room (updated_at is t)
Row(room, t) ==
    [id |-> room.id, name |-> room.name,
     data |-> [layers |-> room.layers, strokes |-> room.strokes,
               chat_messages |-> LastN(room.chat_messages, 50)],
     thumbnail |-> room.thumbnail, password_hash |-> room.password_hash,
     created_at |-> room.created_at, updated_at |-> t]

\* load_room: the Room built from a row of the 7-column schema
load_room(row) ==
    [id |-> row.id, name |-> row.name, password_hash |-> row.password_hash,
     layers |-> row.data.layers, strokes |-> row.data.strokes,
     chat_messages |-> row.data.chat_messages,
     timer_end |-> None, created_at |-> row.created_at, thumbnail |-> row.thumbnail]

(* ------------------------------------------------------------------ *)
(* Initial state                                                       *)
(* ------------------------------------------------------------------ *)

EmptyMap == [x \in {} |-> x]

\* a task that has not started: websocket_endpoint has not been called
NewTask ==
    [pc |-> "new", room_id |-> "", user_id |-> "", nickname |-> "", password |-> "",
     pend |-> <<>>, msg |-> None, failed |-> <<>>, cont |-> "none",
     room |-> None, row |-> None]

\* ConnectionManager.__init__
NewManager ==
    [rooms |-> EmptyMap, user_info |-> EmptyMap, room_data |-> EmptyMap,
     room_stats |-> EmptyMap, user_colors |-> EmptyMap]

\* a stroke an earlier run of the server stored: drawn by u1 on layer_0
SavedStroke ==
    [id |-> "s0", user_id |-> "u1", points |-> "pts", color |-> "#000", size |-> 1,
     layer_id |-> "layer_0", timestamp |-> 0, tool |-> "brush"]

\* the row save_room wrote for room r1 in an earlier run whose first
\* joiner gave the password pw ("" for none)
SavedRow(pw) ==
    Row([NewRoom("r1", IF pw = "" THEN None ELSE Some(pw), 0)
            EXCEPT !.strokes = <<SavedStroke>>], 0)

\* The server starts with an empty manager; drawings.db is empty or holds
\* what an earlier run saved.
InitWith(Conns, dbs) ==
    /\ manager = NewManager
    /\ db \in dbs
    /\ conn = [c \in Conns |-> NewTask]
    /\ alive = [c \in Conns |-> TRUE]
    /\ inbox = [c \in Conns |-> <<>>]
    /\ now = 0
    /\ uuids = 0
    /\ events = 0

(* ------------------------------------------------------------------ *)
(* websocket_endpoint                                                  *)
(* ------------------------------------------------------------------ *)

\* the password connect is called with: `password if password else None`
PasswordArg(k) == IF k.password = "" THEN None ELSE Some(k.password)

\* lines 462-468: a client opens /ws/{room_id}?user_id=..&nickname=..&password=..
\* and the task runs to load_room, or to websocket.accept() when the room
\* is in memory
Open(c, q) ==
    /\ conn[c].pc = "new"
    /\ conn' = [conn EXCEPT ![c] =
                   [NewTask EXCEPT !.pc = IF q.room_id \in DOMAIN manager.room_data
                                          THEN "accept" ELSE "load",
                                   !.room_id = q.room_id, !.user_id = q.user_id,
                                   !.nickname = q.nickname, !.password = q.password]]
    /\ UNCHANGED <<manager, db, alive, inbox, now, uuids, events>>

\* a task suspended in save_room holds the Room object it was called
\* with: when room_data[room_id] is bound to another object, it keeps the old one
KeepRoom(k, room_id, old) ==
    IF k.pc = "save" /\ k.room_id = room_id /\ k.room = None
    THEN [k EXCEPT !.room = Some(old)]
    ELSE k

\* load_room, lines 287-290: the database connection is open; the SELECT
\* runs and fetchone returns the row of the room, or None; the task is
\* suspended with that row until the connection is closed
LoadRead(c) ==
    LET k == conn[c]
    IN
    /\ k.pc = "load"
    /\ conn' = [conn EXCEPT ![c] =
                   [k EXCEPT !.pc = "fetched",
                             !.row = IF k.room_id \in DOMAIN db
                                     THEN Some(db[k.room_id]) ELSE None]]
    /\ UNCHANGED <<manager, db, alive, inbox, now, uuids, events>>

\* lines 291-307 and 468-479: load_room returns the Room built from the
\* row it read; a saved room is put into room_data with new stats; the
\* task runs to websocket.accept()
LoadDone(c) ==
    LET k == conn[c]
        r == k.room_id
    IN
    /\ k.pc = "fetched"
    /\ IF k.row # None
       THEN LET saved_room == load_room(k.row[1])
            IN  /\ manager' =
                       [manager EXCEPT
                           !.room_data = MapSet(@, r, saved_room),
                           !.room_stats = MapSet(@, r,
                               NewStats(Len(saved_room.strokes), saved_room.created_at, now))]
                /\ conn' = [d \in DOMAIN conn |->
                               IF d = c THEN [k EXCEPT !.pc = "accept", !.row = None]
                               ELSE IF r \in DOMAIN manager.room_data
                                    THEN KeepRoom(conn[d], r, manager.room_data[r])
                                    ELSE conn[d]]
       ELSE /\ manager' = manager
            /\ conn' = [conn EXCEPT ![c].pc = "accept"]
    /\ UNCHANGED <<db, alive, inbox, now, uuids, events>>

\* connect, lines 95-100: the refusal: the error message is sent and the
\* task is suspended in that send, the transport still open
Reject(c, k, m, inb, al) ==
    Outcome(m, [inb EXCEPT ![c] = Append(@, ErrorMessage)], al, Idle(k, "closing"))

\* connect, lines 104-139: room creation, registration, user_joined
Join(c, k, m, inb, al, t) ==
    LET m1 == EnsureRoom(m, k.room_id, PasswordArg(k), t)
        m2 == Register(m1, c, k.room_id, k.user_id, k.nickname, t)
    IN  Broadcast(c, k, m2, inb, al,
                  UserJoinedMessage(m2, k.room_id, k.user_id, k.nickname),
                  Some(k.user_id), "init")

\* connect, lines 93-139, up to its first send
connect(c, k, m, inb, al, t) ==
    IF PasswordRejected(m, k.room_id, PasswordArg(k))
    THEN Reject(c, k, m, inb, al)
    ELSE Join(c, k, m, inb, al, t)

\* connect, lines 104-106, binds room_data[room_id] to a new Room
Rebinds(c, k, m) ==
    /\ ~PasswordRejected(m, k.room_id, PasswordArg(k))
    /\ k.room_id \notin DOMAIN m.rooms
    /\ k.room_id \in DOMAIN m.room_data

\* websocket.accept() returns and connect runs to its first send; a task
\* suspended in save_room keeps the Room that connect replaces
Accepted(c) ==
    LET o == connect(c, conn[c], manager, inbox, alive, now)
    IN
    /\ conn[c].pc = "accept"
    /\ manager' = o.m
    /\ inbox' = o.inbox
    /\ alive' = o.alive
    /\ conn' = [d \in DOMAIN conn |->
                   IF d = c THEN o.k
                   ELSE IF Rebinds(c, conn[c], manager)
                        THEN KeepRoom(conn[d], conn[c].room_id,
                                      manager.room_data[conn[c].room_id])
                        ELSE conn[d]]
    /\ UNCHANGED <<db, now, uuids, events>>

\* connect, lines 101-102: websocket.close() after the error message,
\* and connect returns False
Closed(c) ==
    /\ conn[c].pc = "closing"
    /\ alive' = [alive EXCEPT ![c] = FALSE]
    /\ conn' = [conn EXCEPT ![c] = Idle(@, "rejected")]
    /\ UNCHANGED <<manager, db, inbox, now, uuids, events>>

\* broadcast, lines 188-196: a send returns; the next recipient is sent
\* to, or the pass ends and the task runs on
BroadcastNext(c) ==
    LET k == conn[c]
        rest == Tail(k.pend)
    IN
    /\ k.pc = "bcast"
    /\ Commit(IF rest # <<>>
              THEN SendNext(c, k, manager, inbox, alive, rest, k.msg[1], k.failed, k.cont)
              ELSE Prune(c, k, manager, inbox, alive, k.failed, k.cont), c)
    /\ UNCHANGED <<db, now, uuids, events>>

\* lines 485-486: receive_json returns an event and handle_message runs
Receive(c, data) ==
    /\ conn[c].pc = "recv"
    /\ alive[c]
    /\ events < MaxEvents
    /\ Commit(handle_message(c, conn[c], manager, inbox, alive, data, now, uuids + 1), c)
    /\ uuids' = uuids + UuidsDrawn(data)
    /\ events' = events + 1
    /\ UNCHANGED <<db, now>>

\* lines 487-498: receive_json raises WebSocketDisconnect
Disconnected(c) ==
    LET k == conn[c]
        r == disconnect(manager, k.room_id, k.user_id)
    IN
    /\ k.pc = "recv"
    /\ ~alive[c]
    /\ Commit(IF r.raised
              THEN Crash(c, k, r.m, inbox, alive)
              ELSE IF r.ret # None /\ r.ret # Some("")
                   THEN Broadcast(c, k, r.m, inbox, alive,
                                  UserLeftMessage(r.m, k.room_id, k.user_id, r.ret[1]),
                                  None, "save")
                   ELSE After(c, k, r.m, inbox, alive, "save"), c)
    /\ UNCHANGED <<db, now, uuids, events>>

\* save_room, lines 273-283: the database connection is open; the row is
\* built from the Room object the call was given
SaveBegin(c) ==
    LET k == conn[c]
        room == IF k.room = None THEN manager.room_data[k.room_id] ELSE k.room[1]
    IN
    /\ k.pc = "save"
    /\ conn' = [conn EXCEPT ![c] = [Idle(k, "commit") EXCEPT !.row = Some(Row(room, now)),
                                                              !.cont = k.cont]]
    /\ UNCHANGED <<manager, db, alive, inbox, now, uuids, events>>

\* save_room, line 284: INSERT OR REPLACE is committed; save_room returns
\* to websocket_endpoint, which ends, or to save_room_endpoint
SaveCommit(c) ==
    LET k == conn[c]
    IN
    /\ k.pc = "commit"
    /\ db' = MapSet(db, k.room_id, k.row[1])
    /\ conn' = [conn EXCEPT ![c] = Idle(k, IF k.cont = "reply" THEN "reply" ELSE "done")]
    /\ UNCHANGED <<manager, alive, inbox, now, uuids, events>>

\* the client closes its side of an accepted connection
ClientClose(c) ==
    /\ conn[c].pc \in {"bcast", "recv"}
    /\ alive[c]
    /\ alive' = [alive EXCEPT ![c] = FALSE]
    /\ UNCHANGED <<manager, db, conn, inbox, now, uuids, events>>

\* datetime.now().timestamp() has advanced by a second
Tick ==
    /\ now < MaxNow
    /\ now' = now + 1
    /\ UNCHANGED <<manager, db, conn, alive, inbox, uuids, events>>

(* ------------------------------------------------------------------ *)
(* Specifications                                                      *)
(* ------------------------------------------------------------------ *)

Query(room_id, user_id, nickname, password) ==
    [room_id |-> room_id, user_id |-> user_id, nickname |-> nickname, password |-> password]

\* a stroke event that names its layer and lets the server draw the id
StrokeOn(layer) ==
    [type |-> "stroke", points |-> "pts", color |-> "#000", size |-> 1, layer_id |-> layer]

Undo == [type |-> "undo"]

ClearLayer(layer) == [type |-> "clear_layer", layer_id |-> layer]

AddLayer == [type |-> "add_layer", name |-> "Sketch"]

\* Drawing: Ann (u1) and Bob (u2) in room r1, no password, an empty
\* database.  Ann draws on layer_0, Bob on layer_1; both undo, Ann clears
\* layer_0, Bob adds a layer.
DrawQueries ==
    [c \in {"ws1", "ws2"} |->
        IF c = "ws1" THEN {Query("r1", "u1", "Ann", "")} ELSE {Query("r1", "u2", "Bob", "")}]

DrawInputs ==
    [c \in {"ws1", "ws2"} |->
        IF c = "ws1" THEN {StrokeOn("layer_0"), Undo, ClearLayer("layer_0")}
        ELSE {StrokeOn("layer_1"), Undo, AddLayer}]

Init == InitWith(DOMAIN DrawQueries, {EmptyMap})

Next ==
    \E c \in DOMAIN DrawQueries :
        \/ \E q \in DrawQueries[c] : Open(c, q)
        \/ LoadRead(c)
        \/ LoadDone(c)
        \/ Accepted(c)
        \/ BroadcastNext(c)
        \/ \E data \in DrawInputs[c] : Receive(c, data)
        \/ Disconnected(c)
        \/ SaveBegin(c)
        \/ SaveCommit(c)
        \/ ClientClose(c)

Spec == Init /\ [][Next]_vars

\* Joining: room r1 may have been saved by an earlier run, without a
\* password or with the password "secret".  Ann opens ws1 with or without
\* the password; ws2 is Bob with the right, a wrong or no password, or a
\* second connection of Ann (a reconnect under the same user id).
JoinQueries ==
    [c \in {"ws1", "ws2"} |->
        IF c = "ws1"
        THEN {Query("r1", "u1", "Ann", pw) : pw \in {"", "secret"}}
        ELSE {Query("r1", "u2", "Bob", pw) : pw \in {"", "secret", "wrong"}}
             \cup {Query("r1", "u1", "Ann", "secret")}]

JoinInputs == [c \in {"ws1", "ws2"} |-> {StrokeOn("layer_0")}]

JoinInit == InitWith(DOMAIN JoinQueries, {EmptyMap, "r1" :> SavedRow(""), "r1" :> SavedRow("secret")})

JoinNext ==
    \E c \in DOMAIN JoinQueries :
        \/ \E q \in JoinQueries[c] : Open(c, q)
        \/ LoadRead(c)
        \/ LoadDone(c)
        \/ Accepted(c)
        \/ Closed(c)
        \/ BroadcastNext(c)
        \/ \E data \in JoinInputs[c] : Receive(c, data)
        \/ Disconnected(c)
        \/ SaveBegin(c)
        \/ SaveCommit(c)
        \/ ClientClose(c)

SpecJoin == JoinInit /\ [][JoinNext]_vars

Chat(text) == [type |-> "chat", text |-> text]

\* Fan-out: Ann (u1) and Bob (u2) in room r1 with a third connection that
\* is either Cy (u3) or Bob again (a reconnect under his user id); Ann
\* chats, so that her broadcasts go to every session of the room.
FanQueries ==
    [c \in {"ws1", "ws2", "ws3"} |->
        CASE c = "ws1" -> {Query("r1", "u1", "Ann", "")}
          [] c = "ws2" -> {Query("r1", "u2", "Bob", "")}
          [] OTHER -> {Query("r1", "u3", "Cy", ""), Query("r1", "u2", "Bob", "")}]

FanInputs == [c \in {"ws1", "ws2", "ws3"} |-> IF c = "ws1" THEN {Chat("hi")} ELSE {}]

\* the clients that close their connection in this scenario
FanClosers == {"ws2"}

FanInit == InitWith(DOMAIN FanQueries, {EmptyMap})

FanNext ==
    \E c \in DOMAIN FanQueries :
        \/ \E q \in FanQueries[c] : Open(c, q)
        \/ LoadRead(c)
        \/ LoadDone(c)
        \/ Accepted(c)
        \/ BroadcastNext(c)
        \/ \E data \in FanInputs[c] : events < MaxFanEvents /\ Receive(c, data)
        \/ Disconnected(c)
        \/ SaveBegin(c)
        \/ SaveCommit(c)
        \/ c \in FanClosers /\ ClientClose(c)

SpecFan == FanInit /\ [][FanNext]_vars

\* texts of 10, 50, 500 and 501 characters
T10 == "0123456789"

T50 == T10 \o T10 \o T10 \o T10 \o T10

T500 == T50 \o T50 \o T50 \o T50 \o T50 \o T50 \o T50 \o T50 \o T50 \o T50

T501 == T500 \o "!"

StartTimer(duration) == [type |-> "start_timer", duration |-> duration]

StopTimer == [type |-> "stop_timer"]

Cursor == [type |-> "cursor", x |-> 3, y |-> 4]

\* a stroke event without its points
NoPoints == [type |-> "stroke", color |-> "#000", size |-> 1]

\* Conversation: Ann (u1) and a client that gave an empty nickname (u2) in
\* room r1, which an earlier run may have saved.  Ann sends a chat text of
\* 501 characters, asks for a timer of two hours and sends a stroke
\* without points; the other client moves its cursor and stops the timer.
\* The clock advances.
TalkQueries ==
    [c \in {"ws1", "ws2"} |->
        IF c = "ws1" THEN {Query("r1", "u1", "Ann", "")} ELSE {Query("r1", "u2", "", "")}]

TalkInputs ==
    [c \in {"ws1", "ws2"} |->
        IF c = "ws1" THEN {Chat(T501), StartTimer(7200), NoPoints} ELSE {}]

TalkInit == InitWith(DOMAIN TalkQueries, {"r1" :> SavedRow("")})

TalkNext ==
    \/ Tick
    \/ \E c \in DOMAIN TalkQueries :
        \/ \E q \in TalkQueries[c] : Open(c, q)
        \/ LoadRead(c)
        \/ LoadDone(c)
        \/ Accepted(c)
        \/ BroadcastNext(c)
        \/ \E data \in TalkInputs[c] : events < MaxTalkEvents /\ Receive(c, data)
        \/ Disconnected(c)
        \/ SaveBegin(c)
        \/ SaveCommit(c)
        \/ ClientClose(c)

SpecTalk == TalkInit /\ [][TalkNext]_vars

(* ------------------------------------------------------------------ *)
(* Properties                                                          *)
(* ------------------------------------------------------------------ *)

RoomIds == {"r1", "r2"}

UserIds == {"u1", "u2"}

Last(s) == s[Len(s)]

\* the sessions dict of a room, empty when the room has none
Sessions(m, room_id) == IF room_id \in DOMAIN m.rooms THEN m.rooms[room_id] ELSE <<>>

\* connection c is the registered session of its user id in its room
Registered(c) ==
    \E i \in 1..Len(Sessions(manager, conn[c].room_id)) :
        Sessions(manager, conn[c].room_id)[i] = [uid |-> conn[c].user_id, ws |-> c]

\* the task of c has registered its session and has not run a leave for it
InSession(c) ==
    \/ conn[c].pc = "recv"
    \/ conn[c].pc = "bcast" /\ conn[c].cont \in {"init", "recv"}

\* the stroke log of room r1, empty while the room is unknown
Log(m) == IF "r1" \in DOMAIN m.room_data THEN m.room_data["r1"].strokes ELSE <<>>

\* the result of handle_message if c's client sent data now
Handled(c, data) ==
    handle_message(c, conn[c], manager, inbox, alive, data, now, uuids + 1)

Receiving(c) == conn[c].pc = "recv" /\ alive[c]

\* C1: the sessions registered for a room are exactly the connections that
\* joined it and have not left: every connection that is in its session
\* and whose transport is open is registered, and every registered entry
\* is a connection that joined that room under that user id and whose
\* task has not run its leave.
C1_SessionsAreJoinedConnections ==
    /\ \A c \in DOMAIN conn : InSession(c) /\ alive[c] => Registered(c)
    /\ \A r \in DOMAIN manager.rooms : \A i \in 1..Len(manager.rooms[r]) :
          LET e == manager.rooms[r][i]
          IN  /\ conn[e.ws].room_id = r
              /\ conn[e.ws].user_id = e.uid
              /\ InSession(e.ws) \/ conn[e.ws].pc = "crashed"

Absent(m, room_id, user_id) == ~DictHas(Sessions(m, room_id), user_id)

NoOp(m) == [m |-> m, ret |-> None, raised |-> FALSE]

\* C2: leave is idempotent: in every reachable state, for every room and
\* user id, disconnect of an absent session returns None, raises nothing
\* and leaves the manager as it is, and a second disconnect after a first
\* one does the same, however the first one ended.
C2_LeaveIdempotent ==
    \A r \in RoomIds, u \in UserIds :
        LET once == disconnect(manager, r, u)
        IN  /\ Absent(manager, r, u) => once = NoOp(manager)
            /\ disconnect(once.m, r, u) = NoOp(once.m)

\* C2 witness: a session was removed after a failed send (no other
\* connection uses its user id) and its own task has yet to process the
\* close signal, which will call disconnect a second time.
C2_SecondLeavePending ==
    \E c \in DOMAIN conn :
        /\ conn[c].pc = "recv" /\ ~alive[c]
        /\ Absent(manager, conn[c].room_id, conn[c].user_id)
        /\ \A d \in DOMAIN conn \ {c} : conn[d].user_id # conn[c].user_id

\* C3: a rejected join mutates nothing, also when the room was only in
\* persistence: as long as every connection opened so far was rejected,
\* the manager is as it was constructed.
C3_RejectedJoinMutatesNothing ==
    (\A c \in DOMAIN conn : conn[c].pc \in {"new", "closing", "rejected"})
    => manager = NewManager

\* the room of c has a password hash and the password of c does not hash to it
Mismatch(c) ==
    /\ conn[c].room_id \in DOMAIN manager.room_data
    /\ manager.room_data[conn[c].room_id].password_hash # None
    /\ HashOrNone(PasswordArg(conn[c])) # manager.room_data[conn[c].room_id].password_hash

\* C4: when connect decides a join, it rejects exactly when the room has a
\* password hash and the supplied password does not hash to it; a join
\* that is not rejected registers the session.
C4_RejectedIffWrongPassword ==
    [][\A c \in DOMAIN conn :
          conn[c].pc = "accept" /\ conn'[c].pc # "accept"
          => /\ (conn'[c].pc = "closing") <=> Mismatch(c)
             /\ conn'[c].pc = "closing" => ~Registered(c)' /\ manager' = manager
             /\ conn'[c].pc # "closing" => Registered(c)']_vars

\* C4 witness: a protected room with a connection that joined with the
\* matching password and one that was rejected with a wrong one.
C4_JoinedAndRejected ==
    \E c, d \in DOMAIN conn :
        /\ conn[c].pc = "rejected" /\ conn[c].password = "wrong"
        /\ conn[d].pc = "recv" /\ conn[d].password = "secret" /\ Registered(d)
        /\ manager.room_data["r1"].password_hash = Sha256("secret")

\* C5: an init message carries exactly the stroke log of the room at the
\* time it is sent, in log order, with the full layer list and the timer.
C5_InitCarriesLog ==
    [][\A c \in DOMAIN conn :
          Len(inbox'[c]) = Len(inbox[c]) + 1 /\ Last(inbox'[c]).type = "init"
          => LET room == manager'.room_data[conn[c].room_id]
                 init == Last(inbox'[c])
             IN  /\ init.room.strokes = room.strokes
                 /\ init.room.layers = room.layers
                 /\ init.room.timer_end = room.timer_end]_vars

\* C5 witness: A drew one stroke, then B joined: B's init holds that stroke.
C5_InitWithStroke ==
    \E c \in DOMAIN conn : \E i \in 1..Len(inbox[c]) :
        /\ inbox[c][i].type = "init"
        /\ Len(inbox[c][i].room.strokes) = 1
        /\ inbox[c][i].room.strokes[1].user_id # conn[c].user_id
        /\ Len(inbox[c][i].room.layers) = 2

\* C6: the first successful join of a room that has a saved row and is
\* not in memory restores it: once the first connection has joined (no
\* other connection opened, no event yet), the room has the saved
\* layers, strokes and chat and the init carried the saved strokes.
C6_FirstJoinRestores ==
    \A c \in DOMAIN conn :
        /\ conn[c].pc = "recv" /\ events = 0
        /\ \A d \in DOMAIN conn \ {c} : conn[d].pc = "new"
        /\ conn[c].room_id \in DOMAIN db
        => LET row == db[conn[c].room_id]
               room == manager.room_data[conn[c].room_id]
           IN  /\ room.layers = row.data.layers
               /\ room.strokes = row.data.strokes
               /\ room.chat_messages = row.data.chat_messages
               /\ inbox[c][1].room.strokes = row.data.strokes

\* the positions of the strokes of user u in a log
Own(log, u) == {i \in 1..Len(log) : log[i].user_id = u}

\* C7: in every reachable state, an undo from a session U removes the one
\* stroke of U that has no later stroke of U, every other stroke keeps
\* its relative position, and remove_stroke names it; when U has no
\* stroke, nothing changes and nothing is sent.
C7_UndoRemovesLastOwn ==
    \A c \in DOMAIN conn : Receiving(c) =>
        LET o == Handled(c, Undo)
            before == Log(manager)
            after == Log(o.m)
            own == Own(before, conn[c].user_id)
        IN  IF own = {}
            THEN o.m = manager /\ o.inbox = inbox
            ELSE \E i \in own :
                    /\ \A j \in own : j <= i
                    /\ Len(after) = Len(before) - 1
                    /\ \A j \in 1..Len(after) :
                          after[j] = IF j < i THEN before[j] ELSE before[j + 1]
                    /\ o.k.msg = Some([type |-> "remove_stroke", stroke_id |-> before[i].id])

\* C7 witness: an undo removed the first stroke ever drawn and the log
\* keeps the second one, which the other author drew after it.
C7_UndoHappened ==
    \E c \in DOMAIN conn : \E i \in 1..Len(inbox[c]) :
        /\ inbox[c][i] = [type |-> "remove_stroke", stroke_id |-> Uuid4(1)]
        /\ Len(Log(manager)) = 1
        /\ Log(manager)[1].id = Uuid4(2)

\* C8: in every reachable state, clear_layer(L) removes exactly the
\* strokes of layer L: the log gets shorter by their number, the others
\* keep their relative order, and the layer list stays as it is.
C8_ClearRemovesLayerStrokes ==
    \A c \in DOMAIN conn : Receiving(c) =>
        \A L \in {"layer_0", "layer_1"} :
            LET o == Handled(c, ClearLayer(L))
                before == Log(manager)
                after == Log(o.m)
                keep == {i \in 1..Len(before) : before[i].layer_id # L}
            IN  /\ Len(before) - Len(after)
                      = Cardinality({i \in 1..Len(before) : before[i].layer_id = L})
                /\ \A i \in keep : after[Cardinality({j \in keep : j <= i})] = before[i]
                /\ o.m.room_data["r1"].layers = manager.room_data["r1"].layers

\* C8 witness: a layer was cleared and a stroke of another layer is left.
C8_ClearHappened ==
    \E c \in DOMAIN conn : \E i \in 1..Len(inbox[c]) :
        /\ inbox[c][i] = [type |-> "layer_cleared", layer_id |-> "layer_0"]
        /\ \E j \in 1..Len(Log(manager)) : Log(manager)[j].layer_id = "layer_1"
        /\ manager.room_stats["r1"].total_strokes > Len(Log(manager))

\* a stroke event whose client also sends an author of its own choosing
ForgedStroke == [StrokeOn("layer_0") EXCEPT !.size = 2] @@ [user_id |-> "u9"]

\* C9: a valid stroke event appends exactly one stroke, authored by the
\* sending session, behind the strokes already in the log; and the log of
\* a room gets shorter only in a step that handles an event (an undo or a
\* clear_layer).
C9_AppendOnlyShrinkByEvent ==
    [][/\ \A c \in DOMAIN conn : Receiving(c) /\ conn[c].room_id = "r1" =>
             \A data \in {StrokeOn("layer_0"), ForgedStroke} :
                 LET after == Log(Handled(c, data).m)
                 IN  /\ Len(after) = Len(Log(manager)) + 1
                     /\ SubSeq(after, 1, Len(Log(manager))) = Log(manager)
                     /\ Last(after).user_id = conn[c].user_id
       /\ Len(Log(manager')) < Len(Log(manager)) => events' = events + 1]_vars

EventKinds == {"stroke", "remove_stroke", "layer_added"}

\* C10: two broadcast messages of events of one room reach every session
\* that receives both in the order in which the router applied the events,
\* so any two sessions that both receive both receive them in the same order.
C10_SameOrderEverywhere ==
    \A c, d \in DOMAIN conn :
        \A i, j \in 1..Len(inbox[c]) : \A k, l \in 1..Len(inbox[d]) :
            /\ i < j
            /\ inbox[c][i].type \in EventKinds /\ inbox[c][j].type \in EventKinds
            /\ inbox[d][k] = inbox[c][i] /\ inbox[d][l] = inbox[c][j]
            => k < l

\* the task of c is suspended inside the broadcast of an event it handles
InFlight(c) == conn[c].pc = "bcast" /\ conn[c].cont = "recv"

\* C11: handling of an event is atomic in its room: while the handler of
\* one connection is between its start and the end of its broadcast, no
\* step of another task (an event, a join or a leave) changes the state
\* or the session set of that room.
C11_OneHandlerPerRoom ==
    [][\A c \in DOMAIN conn :
          InFlight(c) /\ conn'[c] = conn[c]
          => /\ manager'.room_data[conn[c].room_id] = manager.room_data[conn[c].room_id]
             /\ manager'.rooms[conn[c].room_id] = manager.rooms[conn[c].room_id]]_vars

\* the task of c resumes from a send of its broadcast in this step
Resumes(c) == conn[c].pc = "bcast" /\ conn'[c] # conn[c]

\* delivery of msg to the session e is attempted in this step: the message
\* is put on its transport, or the transport is closed and the user id is
\* marked for removal
Attempted(c, e, msg) ==
    IF alive[e.ws]
    THEN inbox'[e.ws] = Append(inbox[e.ws], msg) /\ conn'[c].failed = conn[c].failed
    ELSE inbox'[e.ws] = inbox[e.ws] /\ conn'[c].failed = Append(conn[c].failed, e.uid)

\* the entries of the sessions dict of room_id that this step removes
Removed(room_id) ==
    {Sessions(manager, room_id)[i] : i \in 1..Len(Sessions(manager, room_id))}
        \ {Sessions(manager', room_id)[i] : i \in 1..Len(Sessions(manager', room_id))}

\* C12: a failed send does not abort the fan-out.  While recipients of
\* the snapshot are left, the pass goes on to the next one whatever has
\* failed before and leaves the manager alone; when the pass is over,
\* every user id whose send failed is out of the sessions dict and every
\* session removed is one whose transport is closed, so that a delivery
\* to it can have failed.
C12_FanOutSurvivesFailure ==
    [][\A c \in DOMAIN conn : Resumes(c) =>
          LET k == conn[c]
              rest == Tail(k.pend)
          IN  IF rest # <<>>
              THEN /\ conn'[c].pc = "bcast" /\ conn'[c].pend = rest
                   /\ Attempted(c, Head(rest), k.msg[1])
                   /\ manager' = manager
              ELSE /\ \A i \in 1..Len(k.failed) : Absent(manager', k.room_id, k.failed[i])
                   /\ \A e \in Removed(k.room_id) :
                         /\ \E i \in 1..Len(k.failed) : k.failed[i] = e.uid
                         /\ ~alive[e.ws]]_vars

\* connection d has been sent a message that lists user id u in its room
ToldOf(d, u) ==
    \E i \in 1..Len(inbox[d]) :
        \/ inbox[d][i].type = "user_joined" /\ inbox[d][i].user_id = u
        \/ /\ inbox[d][i].type = "init"
           /\ \E j \in 1..Len(inbox[d][i].users) : inbox[d][i].users[j].id = u

\* connection d has been sent user_left naming user id u
ToldLeft(d, u) ==
    \E i \in 1..Len(inbox[d]) : inbox[d][i].type = "user_left" /\ inbox[d][i].user_id = u

\* no broadcast is in progress
Quiet == \A c \in DOMAIN conn : conn[c].pc # "bcast"

\* the task of c is past the removal of its session
Gone(c) == conn[c].pc \in {"save", "commit", "done"}

\* C13: a session removed because a delivery to it failed is announced:
\* once its connection is finished and no broadcast is in progress, every
\* session that stayed in the room and had been told of it has been sent
\* user_left naming it.
C13_FailedSendAnnounced ==
    \A c, d \in DOMAIN conn :
        /\ c # d /\ Quiet /\ Gone(c)
        /\ Registered(d) /\ alive[d] /\ conn[d].pc = "recv"
        /\ ToldOf(d, conn[c].user_id)
        => ToldLeft(d, conn[c].user_id)

\* events that lack a field their kind requires
Malformed ==
    {NoPoints,
     [type |-> "stroke", points |-> "pts", size |-> 1],
     [type |-> "stroke", points |-> "pts", color |-> "#000"],
     [type |-> "clear_layer"],
     [type |-> "cursor", x |-> 3],
     [type |-> "cursor", y |-> 4],
     [type |-> "chat"]}

\* C14: an event that lacks a required field is dropped: in every
\* reachable state, when a session sends one, the manager stays as it
\* is, no other session is sent anything, no transport is closed, and the
\* sender's task is back in its receive loop for its later events.
C14_MalformedDropped ==
    \A c \in DOMAIN conn : Receiving(c) =>
        \A data \in Malformed :
            LET o == Handled(c, data)
            IN  /\ o.m = manager
                /\ \A d \in DOMAIN conn \ {c} : o.inbox[d] = inbox[d]
                /\ o.alive = alive
                /\ o.k.pc = "recv"

\* C15: when the transport of a registered session reports disconnect,
\* the session is removed, user_left naming it is sent to every session
\* that remains (the task goes on to the save when none remains), and
\* the row save_room then writes has the layers and strokes the room has
\* in memory at that time.
C15_LeaveAnnouncedAndSaved ==
    [][\A c \in DOMAIN conn :
          /\ conn[c].pc = "recv" /\ ~alive[c] /\ Registered(c) /\ conn'[c] # conn[c]
             => LET rest == Sessions(manager', conn[c].room_id)
                IN  /\ ~Registered(c)'
                    /\ IF rest = <<>>
                       THEN conn'[c].pc = "save"
                       ELSE /\ conn'[c].pc = "bcast" /\ conn'[c].cont = "save"
                            /\ conn'[c].pend = rest
                            /\ conn'[c].msg[1].type = "user_left"
                            /\ conn'[c].msg[1].user_id = conn[c].user_id
          /\ conn[c].pc = "save" /\ conn'[c].pc = "commit"
             => /\ conn'[c].row[1].data.layers = manager.room_data[conn[c].room_id].layers
                /\ conn'[c].row[1].data.strokes = manager.room_data[conn[c].room_id].strokes]_vars

Reaction == [type |-> "reaction", emoji |-> "star", x |-> 1, y |-> 2]

SaveThumbnail == [type |-> "save_thumbnail", thumbnail |-> "png"]

\* the sessions a run of handle_message sends its message to, one send
\* each: the snapshot its broadcast works through
SentTo(o) == IF o.k.pc = "bcast" THEN o.k.pend ELSE <<>>

\* the sessions registered in the room of c, and those of them that are
\* not the connection c itself
Everyone(c) == Sessions(manager, conn[c].room_id)

Others(c) == SelectSeq(Everyone(c), LAMBDA e : e.ws # c)

\* C16: the recipients of an event's broadcast are fixed by its kind.  In
\* every reachable state, a stroke or cursor event of a session goes to
\* every registered session but the sender; an undo that removes a
\* stroke, add_layer, clear_layer, chat, start_timer, stop_timer and
\* reaction go to every registered session; an undo that removes nothing
\* and save_thumbnail go to nobody; each recipient once.
C16_RecipientsByKind ==
    \A c \in DOMAIN conn : Receiving(c) =>
        /\ \A data \in {StrokeOn("layer_0"), Cursor} :
              SentTo(Handled(c, data)) = Others(c)
        /\ \A data \in {AddLayer, ClearLayer("layer_0"), Chat("hi"), StartTimer(60),
                        StopTimer, Reaction} :
              SentTo(Handled(c, data)) = Everyone(c)
        /\ SentTo(Handled(c, Undo)) =
              IF Own(Log(manager), conn[c].user_id) = {} THEN <<>> ELSE Everyone(c)
        /\ SentTo(Handled(c, SaveThumbnail)) = <<>>
        /\ \A i, j \in 1..Len(Everyone(c)) : Everyone(c)[i] = Everyone(c)[j] => i = j

\* the list of users of a message names user id u
Lists(users, u) == \E i \in 1..Len(users) : users[i].id = u

\* C17: on a successful join, user_joined goes to every session that was
\* registered in the room before, one send each, and not to the joiner;
\* init is sent to the joiner alone; both list the joiner among the users.
C17_JoinNotifications ==
    [][\A c \in DOMAIN conn :
          /\ conn[c].pc = "accept" /\ conn'[c].pc \notin {"accept", "closing"}
             => IF Everyone(c) = <<>>
                THEN conn'[c].pc # "bcast"
                ELSE /\ conn'[c].pc = "bcast" /\ conn'[c].cont = "init"
                     /\ conn'[c].pend = Everyone(c)
                     /\ conn'[c].msg[1].type = "user_joined"
                     /\ conn'[c].msg[1].user_id = conn[c].user_id
                     /\ Lists(conn'[c].msg[1].users, conn[c].user_id)
          /\ Len(inbox'[c]) = Len(inbox[c]) + 1 /\ Last(inbox'[c]).type = "init"
             => /\ \A d \in DOMAIN conn \ {c} : inbox'[d] = inbox[d]
                /\ Lists(Last(inbox'[c]).users, conn[c].user_id)
          /\ \A i \in 1..Len(inbox'[c]) :
                inbox'[c][i].type = "user_joined" => inbox'[c][i].user_id # conn'[c].user_id]_vars

\* chat texts of 0, 2, 500, 501 and 511 characters
Texts == {"", "hi", T500, T501, T501 \o T10}

\* the chat history of room r1
History(m) == m.room_data["r1"].chat_messages

\* C18: in every reachable state a chat event is accepted whatever the
\* length of its text: one message is stored, its text is the first 500
\* characters of the text sent (the whole text when that has 500
\* characters or fewer), and the chat message that is broadcast is the
\* stored one.
C18_ChatTextCut ==
    \A c \in DOMAIN conn : Receiving(c) =>
        \A text \in Texts :
            LET o == Handled(c, Chat(text))
                stored == Last(History(o.m))
            IN  /\ Len(History(o.m)) = Len(History(manager)) + 1
                /\ stored.user_id = conn[c].user_id
                /\ IF Len(text) > 500
                   THEN Len(stored.text) = 500 /\ stored.text = SubSeq(text, 1, 500)
                   ELSE stored.text = text
                /\ SentTo(o) = Everyone(c)
                /\ SentTo(o) # <<>> => o.k.msg = Some([type |-> "chat", message |-> stored])

\* C18 witness: Ann has sent a text of 501 characters; the history ends
\* with a message that holds its first 500 characters, and a session has
\* been sent that message.
C18_LongTextStored ==
    /\ "r1" \in DOMAIN manager.room_data
    /\ History(manager) # <<>>
    /\ Last(History(manager)).text = T500
    /\ \E c \in DOMAIN conn : \E i \in 1..Len(inbox[c]) :
          inbox[c][i] = [type |-> "chat", message |-> Last(History(manager))]

\* C19: the chat history of a room in memory has at most 100 messages
\* and they are the most recently sent ones in send order: it changes
\* only when a chat event appends its new message behind the others,
\* the oldest being dropped beyond 100.  An init message carries the last
\* 50 messages of the history at the time it is sent, and so does the row
\* save_room builds; no row of the database has more than 50.
C19_ChatHistoryBounded ==
    [][/\ "r1" \in DOMAIN manager.room_data /\ "r1" \in DOMAIN manager'.room_data
          => LET old == History(manager)
                 new == History(manager')
             IN  /\ Len(new) <= 100
                 /\ \/ new = old
                    \/ /\ new # <<>>
                       /\ events' = events + 1
                       /\ Last(new).id = Uuid4(uuids')
                       /\ new = LastN(Append(old, Last(new)), 100)
       /\ \A c \in DOMAIN conn :
             /\ Len(inbox'[c]) = Len(inbox[c]) + 1 /\ Last(inbox'[c]).type = "init"
                => /\ Len(Last(inbox'[c]).room.chat_messages) <= 50
                   /\ Last(inbox'[c]).room.chat_messages = LastN(History(manager'), 50)
             /\ conn[c].pc = "save" /\ conn'[c].pc = "commit"
                => conn'[c].row[1].data.chat_messages = LastN(History(manager), 50)
       /\ \A r \in DOMAIN db' : Len(db'[r].data.chat_messages) <= 50]_vars

\* requested timer durations, in seconds
Durations == {0, 60, 300, 3600, 3601, 7200, 100000}

\* the timer end stored for room r1
TimerEnd(m) == m.room_data["r1"].timer_end

\* C20: no stored timer end is later than now + 3600.  In every reachable
\* state a start_timer request stores an end that is at most now + 3600,
\* and exactly now + 3600 when the requested duration is above 3600; the
\* timer_started message carries that end; and the end a room holds is
\* never later than now + 3600.
C20_TimerEndClamped ==
    /\ \A c \in DOMAIN conn : Receiving(c) =>
          \A d \in Durations :
              LET o == Handled(c, StartTimer(d))
              IN  /\ TimerEnd(o.m) # None
                  /\ TimerEnd(o.m)[1] <= now + 3600
                  /\ d > 3600 => TimerEnd(o.m)[1] = now + 3600
                  /\ SentTo(o) # <<>> => o.k.msg[1].timer_end = TimerEnd(o.m)
    /\ \A r \in DOMAIN manager.room_data :
          manager.room_data[r].timer_end # None
          => manager.room_data[r].timer_end[1] <= now + 3600

\* C20 witness: a timer of 7200 seconds was requested after the clock had
\* advanced: the room holds the end now + 3600 and a session was sent
\* timer_started with that end and the duration 3600.
C20_TwoHoursRequested ==
    /\ now > 0
    /\ "r1" \in DOMAIN manager.room_data
    /\ TimerEnd(manager) = Some(now + 3600)
    /\ \E c \in DOMAIN conn : \E i \in 1..Len(inbox[c]) :
          inbox[c][i] = [type |-> "timer_started", timer_end |-> Some(now + 3600),
                         duration |-> 3600]

(* ------------------------------------------------------------------ *)
(* Editing a restored room                                             *)
(* ------------------------------------------------------------------ *)

\* Number of client events in the editing scenario.
MaxEditEvents == 2

\* a layer an earlier run of the server added behind layer_0
SketchLayer == [id |-> "layer_1", name |-> "Sketch", visible |-> TRUE,
                locked |-> FALSE, opacity |-> 1, order |-> 1]

\* the row save_room wrote for room r1 in an earlier run in which a layer
\* was added and a stroke drawn
StudioRow ==
    Row([NewRoom("r1", None, 0)
            EXCEPT !.layers = <<DefaultLayer, SketchLayer>>,
                   !.strokes = <<SavedStroke>>], 0)

\* an event of a kind handle_message has no branch for
Zoom == [type |-> "zoom", factor |-> 2]

\* Editing: Ann (u1) and Bob (u2) in room r1, new or saved by an earlier
\* run with two layers.  Ann adds a layer, asks for a timer of minus five
\* seconds, moves her cursor, reacts and sends an event of unknown kind.
EditQueries ==
    [c \in {"ws1", "ws2"} |->
        IF c = "ws1" THEN {Query("r1", "u1", "Ann", "")} ELSE {Query("r1", "u2", "Bob", "")}]

EditInputs ==
    [c \in {"ws1", "ws2"} |->
        IF c = "ws1" THEN {AddLayer, StartTimer(-5), Cursor, Reaction, Zoom} ELSE {}]

EditInit == InitWith(DOMAIN EditQueries, {EmptyMap, "r1" :> StudioRow})

EditNext ==
    \E c \in DOMAIN EditQueries :
        \/ \E q \in EditQueries[c] : Open(c, q)
        \/ LoadRead(c)
        \/ LoadDone(c)
        \/ Accepted(c)
        \/ BroadcastNext(c)
        \/ \E data \in EditInputs[c] : events < MaxEditEvents /\ Receive(c, data)
        \/ Disconnected(c)
        \/ SaveBegin(c)
        \/ SaveCommit(c)
        \/ ClientClose(c)

SpecEdit == EditInit /\ [][EditNext]_vars

\* s is an initial segment of t
IsPrefix(s, t) == Len(s) <= Len(t) /\ SubSeq(t, 1, Len(s)) = s

\* the layer list of room r in manager m
Layers(m, r) == m.room_data[r].layers

\* C21: every room in memory, created fresh or restored, has at least one
\* layer and its first layer is layer_0 "Background"; and the layer list
\* of a room only grows: across every step the list a room had is an
\* initial segment of the list it has afterwards.
C21_LayersOnlyGrow ==
    [][\A r \in DOMAIN manager'.room_data :
          /\ Len(Layers(manager', r)) >= 1
          /\ Layers(manager', r)[1].id = "layer_0"
          /\ Layers(manager', r)[1].name = "Background"
          /\ r \in DOMAIN manager.room_data
             => IsPrefix(Layers(manager, r), Layers(manager', r))]_vars

\* the password hash of room r in manager m
HashOf(m, r) == m.room_data[r].password_hash

\* C22: the password hash of a room never changes after the room is
\* created: across every step a room in memory keeps its hash, a room
\* restored from the database has the hash of its row, and a row that is
\* written again keeps the hash it had.
C22_PasswordHashImmutable ==
    [][/\ \A r \in DOMAIN manager'.room_data :
             /\ r \in DOMAIN manager.room_data
                => HashOf(manager', r) = HashOf(manager, r)
             /\ r \notin DOMAIN manager.room_data /\ r \in DOMAIN db
                => HashOf(manager', r) = db[r].password_hash
       /\ \A r \in DOMAIN db' :
             r \in DOMAIN db => db'[r].password_hash = db[r].password_hash]_vars

(* ------------------------------------------------------------------ *)
(* The HTTP endpoints of a room                                        *)
(* ------------------------------------------------------------------ *)

\* Number of client events in the HTTP scenario.
MaxHttpEvents == 1

\* JSONResponse({"error": "Room not found"}, status_code=404)
NotFound == [status |-> 404, body |-> [error |-> "Room not found"]]

\* a response with status 200
Ok(body) == [status |-> 200, body |-> body]

\* the response of a request is written to the HTTP client and the task ends
Respond(h, response) ==
    /\ inbox' = [inbox EXCEPT ![h] = Append(@, response)]
    /\ conn' = [conn EXCEPT ![h] = Idle(@, "done")]

\* POST /api/rooms/{room_id}/save, lines 423-428: up to the call of
\* save_room for a room in memory, or to the 404 response
save_room_endpoint(h, room_id) ==
    /\ conn[h].pc = "new"
    /\ IF room_id \in DOMAIN manager.room_data
       THEN /\ conn' = [conn EXCEPT ![h] = [NewTask EXCEPT !.pc = "save", !.room_id = room_id,
                                                            !.cont = "reply"]]
            /\ inbox' = inbox
       ELSE /\ conn' = [conn EXCEPT ![h] = [NewTask EXCEPT !.pc = "done", !.room_id = room_id]]
            /\ inbox' = [inbox EXCEPT ![h] = Append(@, NotFound)]
    /\ UNCHANGED <<manager, db, alive, now, uuids, events>>

\* lines 426-427: save_room has returned; {"status": "saved"}
SaveReplied(h) ==
    /\ conn[h].pc = "reply"
    /\ Respond(h, Ok([status |-> "saved"]))
    /\ UNCHANGED <<manager, db, alive, now, uuids, events>>

\* the stats endpoint keyed on the sessions dict instead of room_stats: a
\* room that is loaded but has no session yet is reported as not found
get_room_stats_RoomsKey(h, room_id) ==
    /\ conn[h].pc = "new"
    /\ conn' = [conn EXCEPT ![h] = [NewTask EXCEPT !.pc = "done", !.room_id = room_id]]
    /\ inbox' = [inbox EXCEPT ![h] =
                    Append(@, IF room_id \in DOMAIN manager.rooms
                              THEN Ok(manager.room_stats[room_id])
                              ELSE NotFound)]
    /\ UNCHANGED <<manager, db, alive, now, uuids, events>>

\* GET /api/rooms/{room_id}/stats, lines 430-434
get_room_stats(h, room_id) ==
    /\ conn[h].pc = "new"
    /\ conn' = [conn EXCEPT ![h] = [NewTask EXCEPT !.pc = "done", !.room_id = room_id]]
    /\ inbox' = [inbox EXCEPT ![h] =
                    Append(@, IF room_id \in DOMAIN manager.room_stats
                              THEN Ok(manager.room_stats[room_id])
                              ELSE NotFound)]
    /\ UNCHANGED <<manager, db, alive, now, uuids, events>>

\* HTTP: Ann (u1) and Bob (u2) join room r1, new or saved by an earlier
\* run, and Ann draws; one HTTP client asks for a save and another for the
\* stats of r1 or of r9, a room nobody has opened.
HttpQueries ==
    [c \in {"ws1", "ws2"} |->
        IF c = "ws1" THEN {Query("r1", "u1", "Ann", "")} ELSE {Query("r1", "u2", "Bob", "")}]

HttpInputs == [c \in {"ws1", "ws2"} |-> IF c = "ws1" THEN {StrokeOn("layer_0")} ELSE {}]

\* the endpoint each HTTP client calls
HttpRequests == [h \in {"h1", "h2"} |-> IF h = "h1" THEN "save" ELSE "stats"]

HttpClients == DOMAIN HttpRequests

HttpRooms == {"r1", "r9"}

HttpInit == InitWith(DOMAIN HttpQueries \cup HttpClients, {EmptyMap, "r1" :> SavedRow("")})

HttpNext ==
    \/ \E c \in DOMAIN HttpQueries :
        \/ \E q \in HttpQueries[c] : Open(c, q)
        \/ LoadRead(c)
        \/ LoadDone(c)
        \/ Accepted(c)
        \/ BroadcastNext(c)
        \/ \E data \in HttpInputs[c] : events < MaxHttpEvents /\ Receive(c, data)
        \/ Disconnected(c)
        \/ ClientClose(c)
    \/ \E c \in DOMAIN HttpQueries \cup HttpClients :
        \/ SaveBegin(c)
        \/ SaveCommit(c)
    \/ \E h \in HttpClients :
        \/ \E room_id \in HttpRooms : HttpRequests[h] = "save" /\ save_room_endpoint(h, room_id)
        \/ \E room_id \in HttpRooms : HttpRequests[h] = "stats" /\ get_room_stats(h, room_id)
        \/ SaveReplied(h)

SpecHttp == HttpInit /\ [][HttpNext]_vars

\* room_id is known in memory
Known(m, room_id) == room_id \in DOMAIN m.room_data

\* the Room object the save_room call of task c was given, as it is now:
\* the room bound in room_data unless that entry was bound to another
\* object after the call
RoomHeld(c) ==
    IF conn[c].room = None THEN manager.room_data[conn[c].room_id] ELSE conn[c].room[1]

\* C23: a stats or a save request for a room that is not in memory is
\* answered with the not-found response and changes neither the manager
\* nor the database, and the request is over.  A stats request for a room
\* in memory is answered with the RoomStats the room has at that moment.
\* A save request for a room in memory writes the row of the room it
\* found there, as that room is when save_room builds the row, changes
\* nothing else, and is then answered with "saved".
C23_EndpointsNotFound ==
    [][\A h \in HttpClients :
          LET r == conn'[h].room_id
          IN  /\ conn[h].pc = "new" /\ conn'[h].pc # "new"
                 => /\ manager' = manager
                    /\ db' = db
                    /\ ~Known(manager, r)
                       => inbox'[h] = <<NotFound>> /\ conn'[h].pc = "done"
                    /\ Known(manager, r) /\ HttpRequests[h] = "stats"
                       => inbox'[h] = <<Ok(manager.room_stats[r])>> /\ conn'[h].pc = "done"
                    /\ Known(manager, r) /\ HttpRequests[h] = "save"
                       => inbox'[h] = <<>> /\ conn'[h].pc = "save"
              /\ conn[h].pc = "save" /\ conn'[h].pc # "save"
                 => /\ conn'[h].row = Some(Row(RoomHeld(h), now))
                    /\ manager' = manager /\ db' = db
              /\ conn[h].pc = "commit" /\ conn'[h].pc # "commit"
                 => /\ db' = MapSet(db, r, conn[h].row[1])
                    /\ manager' = manager
              /\ conn[h].pc = "reply" /\ conn'[h].pc # "reply"
                 => /\ inbox'[h] = <<Ok([status |-> "saved"])>>
                    /\ manager' = manager /\ db' = db]_vars

\* C23 witness: Ann has drawn a stroke in r1; the save request for r1 was
\* answered with "saved" and the stored row holds her stroke; the stats
\* request for r9 was answered with not found, and r9 is neither in
\* memory nor in the database.
C23_SavedAndNotFound ==
    /\ inbox["h1"] = <<Ok([status |-> "saved"])>>
    /\ conn["h1"].room_id = "r1"
    /\ "r1" \in DOMAIN db
    /\ \E i \in 1..Len(db["r1"].data.strokes) : db["r1"].data.strokes[i].id = Uuid4(1)
    /\ inbox["h2"] = <<NotFound>>
    /\ conn["h2"].room_id = "r9"
    /\ "r9" \notin DOMAIN db
    /\ ~Known(manager, "r9")

\* The twin of a run: the same run with the password "secret" replaced by
\* "hunter2" everywhere it occurs, in the query of a client and, hashed,
\* in a room or a row.
Twin(password) == IF password = "secret" THEN "hunter2" ELSE password

TwinHash(hash) == IF hash = None THEN None ELSE Sha256(Twin(hash[2]))

TwinRoom(room) == [room EXCEPT !.password_hash = TwinHash(@)]

TwinManager(m) ==
    [m EXCEPT !.room_data = [r \in DOMAIN m.room_data |-> TwinRoom(m.room_data[r])]]

TwinTask(k) ==
    [k EXCEPT !.password = Twin(@),
              !.room = IF @ = None THEN None ELSE Some(TwinRoom(@[1])),
              !.row = IF @ = None THEN None ELSE Some(TwinRoom(@[1]))]

TwinOutcome(o) == Outcome(TwinManager(o.m), o.inbox, o.alive, TwinTask(o.k))

\* C24: an init message reports has_password = true exactly when the room
\* has a password hash at that moment, and what is sent does not depend on
\* the password: in every reachable state a join (accepted or refused),
\* an event and a leave send in the twin run, where the room's password
\* and the passwords of the clients are another string, exactly the
\* messages they send in this run, to the same connections, and leave the
\* twin of the state they leave here.
C24_PasswordNeverSent ==
    [][\A c \in DOMAIN conn :
          /\ Len(inbox'[c]) = Len(inbox[c]) + 1 /\ Last(inbox'[c]).type = "init"
             => Last(inbox'[c]).room.has_password
                   = (HashOf(manager', conn[c].room_id) # None)
          /\ conn[c].pc = "accept"
             => connect(c, TwinTask(conn[c]), TwinManager(manager), inbox, alive, now)
                   = TwinOutcome(connect(c, conn[c], manager, inbox, alive, now))
          /\ Receiving(c)
             => \A data \in {StrokeOn("layer_0"), Chat("hi"), Cursor, Undo} :
                   handle_message(c, TwinTask(conn[c]), TwinManager(manager),
                                  inbox, alive, data, now, uuids + 1)
                      = TwinOutcome(Handled(c, data))
          /\ conn[c].pc = "recv"
             => LET r == disconnect(manager, conn[c].room_id, conn[c].user_id)
                IN  /\ disconnect(TwinManager(manager), conn[c].room_id, conn[c].user_id).m
                          = TwinManager(r.m)
                    /\ UserLeftMessage(TwinManager(r.m), conn[c].room_id,
                                       conn[c].user_id, conn[c].nickname)
                          = UserLeftMessage(r.m, conn[c].room_id,
                                            conn[c].user_id, conn[c].nickname)]_vars

\* C24 witness: room r1 is protected by the password "secret"; Ann joined
\* it with that password and her init reports has_password = true, and a
\* client with another password was sent the error.
C24_ProtectedJoinedAndRefused ==
    /\ "r1" \in DOMAIN manager.room_data
    /\ HashOf(manager, "r1") = Sha256("secret")
    /\ \E c \in DOMAIN conn :
          /\ conn[c].password = "secret"
          /\ \E i \in 1..Len(inbox[c]) :
                inbox[c][i].type = "init" /\ inbox[c][i].room.has_password
    /\ \E c \in DOMAIN conn :
          conn[c].password # "secret" /\ inbox[c] = <<ErrorMessage>>

\* requested timer durations, negative ones included
SignedDurations == {-3600, -5, -1, 0, 1, 300, 3600, 3601, 7200}

Max(a, b) == IF a >= b THEN a ELSE b

\* C25: start_timer clamps the requested duration d to [0, 3600] at both
\* ends: in every reachable state a start_timer request with duration d,
\* negative or not, stores the end now + min(max(d, 0), 3600), and the
\* timer_started message carries that end and the clamped duration; and
\* no step gives a room a timer end that is earlier than now.
C25_TimerClampedBothEnds ==
    [][/\ \A c \in DOMAIN conn : Receiving(c) =>
             \A d \in SignedDurations :
                 LET o == Handled(c, StartTimer(d))
                     clamped == Min(Max(d, 0), 3600)
                 IN  /\ TimerEnd(o.m) = Some(now + clamped)
                     /\ SentTo(o) # <<>>
                        => o.k.msg = Some([type |-> "timer_started",
                                           timer_end |-> Some(now + clamped),
                                           duration |-> clamped])
       /\ \A r \in DOMAIN manager'.room_data :
             LET end == manager'.room_data[r].timer_end
             IN  /\ end # None
                 /\ r \in DOMAIN manager.room_data => end # manager.room_data[r].timer_end
                 => end[1] >= now]_vars

\* add_layer events: with a name, without one, with an id of the client
LayerEvents == {AddLayer, [type |-> "add_layer"],
                [type |-> "add_layer", id |-> "mine", name |-> "Ink"]}

\* C26: in every reachable state an add_layer event of a session appends
\* exactly one layer behind the layers of its room, with order equal to
\* the number of layers the room had, as a visible and unlocked layer
\* with the name (and id) the event gave; the layers the room had, its
\* strokes and everything else in the manager stay as they were; and
\* layer_added with that layer is sent to every session of the room.
C26_AddLayerAppends ==
    \A c \in DOMAIN conn : Receiving(c) =>
        \A data \in LayerEvents :
            LET o == Handled(c, data)
                r == conn[c].room_id
                old == Layers(manager, r)
                new == Layers(o.m, r)
                layer == Last(new)
            IN  /\ Len(new) = Len(old) + 1
                /\ SubSeq(new, 1, Len(old)) = old
                /\ layer.order = Len(old)
                /\ layer.name = Get(data, "name", "New Layer")
                /\ layer.id = Get(data, "id", "layer_" \o Uuid4(uuids + 1))
                /\ layer.visible /\ ~layer.locked
                /\ o.m = [manager EXCEPT !.room_data[r].layers = new]
                /\ SentTo(o) = Everyone(c)
                /\ SentTo(o) # <<>>
                   => o.k.msg = Some([type |-> "layer_added", layer |-> layer])

\* C26 witness: Ann has added a layer to room r1: the room has layer_0 and
\* behind it the layer "Sketch" with order 1, and a session of the room
\* has been sent layer_added with that layer.
C26_LayerAdded ==
    /\ "r1" \in DOMAIN manager.room_data
    /\ Len(Layers(manager, "r1")) = 2
    /\ Layers(manager, "r1")[1] = DefaultLayer
    /\ Layers(manager, "r1")[2].name = "Sketch"
    /\ Layers(manager, "r1")[2].order = 1
    /\ \E c \in DOMAIN conn : \E i \in 1..Len(inbox[c]) :
          inbox[c][i] = [type |-> "layer_added", layer |-> Layers(manager, "r1")[2]]

\* events that carry no room state: a cursor move, a reaction, and events
\* of a kind outside the closed set (one of them without a type)
Unknown == {Zoom, [type |-> "STROKE", points |-> "pts"], [factor |-> 2]}

Ephemeral == {Cursor, Reaction, [type |-> "reaction"]} \cup Unknown

\* the task of c is in the broadcast of a cursor or reaction message
Relaying(c) ==
    /\ conn[c].pc = "bcast"
    /\ conn[c].cont = "recv"
    /\ conn[c].msg[1].type \in {"cursor", "reaction"}

\* the run of handle_message for an event that carries no room state, up
\* to its first send: the manager is as it was, and an unknown kind sends
\* nothing and leaves the task in its receive loop
HandledWithoutEffect(c) ==
    /\ \A data \in Ephemeral : Handled(c, data).m = manager
    /\ \A data \in Unknown :
          Handled(c, data) = Outcome(manager, inbox, alive, conn[c])

\* C27 as claimed: a cursor, reaction or unknown event leaves layers,
\* strokes, chat, timer, thumbnail, stats and the session set unchanged,
\* in the run of handle_message and in every step of its broadcast; an
\* unknown kind sends nothing and does not end the session.
C27_EphemeralChangesNothing ==
    [][\A c \in DOMAIN conn :
          /\ Receiving(c) => HandledWithoutEffect(c)
          /\ Relaying(c) /\ conn'[c] # conn[c]
             => /\ manager'.room_data = manager.room_data
                /\ manager'.room_stats = manager.room_stats
                /\ manager'.rooms = manager.rooms]_vars

\* the user ids of the sessions in a sessions dict
Uids(sessions) == {sessions[i].uid : i \in 1..Len(sessions)}

\* C27 as amended: a cursor, reaction or unknown event leaves layers,
\* strokes, chat, timer, thumbnail and the counters total_strokes and
\* total_users_joined unchanged, in the run of handle_message and in every
\* step of its broadcast; the session set is unchanged except that the
\* broadcast of a cursor or reaction, when it ends, removes the sessions
\* of the user ids to which one of its sends failed, and active_users
\* changes only then, to the number of sessions left; an unknown kind
\* sends nothing and does not end the session.
C27_EphemeralChangesOnlyFailedSessions ==
    [][\A c \in DOMAIN conn :
          /\ Receiving(c) => HandledWithoutEffect(c)
          /\ Relaying(c) /\ conn'[c] # conn[c]
             => LET r == conn[c].room_id
                    old == Sessions(manager, r)
                    new == Sessions(manager', r)
                    before == {conn[c].failed[i] : i \in 1..Len(conn[c].failed)}
                    failed == IF alive[Head(conn[c].pend).ws] THEN before
                              ELSE before \cup {Head(conn[c].pend).uid}
                IN  /\ manager'.room_data = manager.room_data
                    /\ \A q \in DOMAIN manager.rooms \ {r} :
                          manager'.rooms[q] = manager.rooms[q]
                    /\ \A q \in DOMAIN manager.room_stats :
                          /\ manager'.room_stats[q].total_strokes
                                = manager.room_stats[q].total_strokes
                          /\ manager'.room_stats[q].total_users_joined
                                = manager.room_stats[q].total_users_joined
                          /\ q # r => manager'.room_stats[q] = manager.room_stats[q]
                    /\ new = SelectSeq(old, LAMBDA e : e.uid \in Uids(new))
                    /\ Uids(old) \ Uids(new) \subseteq failed
                    /\ conn'[c].pc = "bcast" => manager' = manager
                    /\ new = old => manager'.room_stats = manager.room_stats
                    /\ r \in DOMAIN manager.room_stats =>
                          manager'.room_stats[r].active_users
                             \in {manager.room_stats[r].active_users, Len(new)}]_vars

\* C27 witness: Ann joined room r1 when Bob was in it and then sent a
\* cursor move or a reaction, the only event so far; Bob's transport is
\* closed and the send to him failed, so his session is gone although
\* his task has not run its leave; the room is as it was created and both
\* were counted as joined.
C27_RelayedAndPruned ==
    /\ events = 1
    /\ conn["ws1"].pc = "recv"
    /\ Len(inbox["ws1"]) = 1
    /\ Len(inbox["ws1"][1].users) = 2
    /\ conn["ws2"].pc = "recv" /\ ~alive["ws2"] /\ ~Registered("ws2")
    /\ manager.room_data["r1"] = NewRoom("r1", None, 0)
    /\ manager.room_stats["r1"].total_users_joined = 2
    /\ manager.room_stats["r1"].active_users = 1

\* no task is in the middle of a join or of a leave of room r: every
\* task of that room is before its start, in its receive loop (or in the
\* broadcast of an event), refused, or at its end
Settled(r) ==
    \A c \in DOMAIN conn :
        conn[c].room_id = r =>
            \/ conn[c].pc \in {"new", "recv", "closing", "rejected", "done", "crashed"}
            \/ conn[c].pc = "bcast" /\ conn[c].cont = "recv"

\* C28: whenever no join or leave of a room is in the middle of its
\* execution, the active_users of the room's stats is the number of
\* sessions registered in the room.
C28_ActiveUsersCountsSessions ==
    \A r \in DOMAIN manager.room_stats :
        Settled(r) => manager.room_stats[r].active_users = Len(Sessions(manager, r))

\* the step is the run of connect for c that ends with its session registered
JoinsNow(c) == conn[c].pc = "accept" /\ conn'[c].pc \notin {"accept", "closing"}

\* C29: the counters of a room's stats never decrease.  total_strokes
\* grows by exactly 1 in a step that appends a stroke to the room's log
\* and is unchanged by every other step, undo and clear_layer included;
\* total_users_joined grows by exactly 1 in a step in which a join
\* succeeds and is unchanged by every other step, a refused join and a
\* leave included.
C29_CountersMonotonic ==
    [][\A r \in DOMAIN manager.room_stats :
          LET old == manager.room_stats[r]
              new == manager'.room_stats[r]
              log == manager.room_data[r].strokes
              log2 == manager'.room_data[r].strokes
          IN  /\ new.total_strokes >= old.total_strokes
              /\ new.total_users_joined >= old.total_users_joined
              /\ new.total_strokes =
                    IF Len(log2) = Len(log) + 1 /\ SubSeq(log2, 1, Len(log)) = log
                    THEN old.total_strokes + 1 ELSE old.total_strokes
              /\ new.total_users_joined =
                    IF \E c \in DOMAIN conn : conn[c].room_id = r /\ JoinsNow(c)
                    THEN old.total_users_joined + 1 ELSE old.total_users_joined]_vars

(* ------------------------------------------------------------------ *)
(* Two rooms                                                           *)
(* ------------------------------------------------------------------ *)

\* Number of client events in the two-room scenario.
MaxHouseEvents == 2

\* Two rooms: Ann (u1) is in room r1; the client in room r2 is Bob (u2) or
\* a second tab of Ann, under her user id u1 with the nickname "Annie".
\* Both draw and chat.
HouseQueries ==
    [c \in {"ws1", "ws2"} |->
        IF c = "ws1" THEN {Query("r1", "u1", "Ann", "")}
        ELSE {Query("r2", "u2", "Bob", ""), Query("r2", "u1", "Annie", "")}]

HouseInputs == [c \in {"ws1", "ws2"} |-> {StrokeOn("layer_0"), Chat("hi")}]

HouseInit == InitWith(DOMAIN HouseQueries, {EmptyMap})

HouseNext ==
    \E c \in DOMAIN HouseQueries :
        \/ \E q \in HouseQueries[c] : Open(c, q)
        \/ LoadRead(c)
        \/ LoadDone(c)
        \/ Accepted(c)
        \/ BroadcastNext(c)
        \/ \E data \in HouseInputs[c] : events < MaxHouseEvents /\ Receive(c, data)
        \/ Disconnected(c)
        \/ SaveBegin(c)
        \/ SaveCommit(c)
        \/ ClientClose(c)

SpecHouse == HouseInit /\ [][HouseNext]_vars

\* the connections that are sessions of room r
SessionsOf(m, r) == {Sessions(m, r)[i].ws : i \in 1..Len(Sessions(m, r))}

\* C30: rooms are isolated.  A step of a task of one room (its join, its
\* leave, an event and the sends of their broadcasts) leaves every other
\* room as it was: its layers, strokes, chat and timer, its session set,
\* its user list (ids, nicknames, colors), and the messages sent to its
\* sessions; also when one user id is connected to both rooms.
C30_RoomsIsolated ==
    [][\A c \in DOMAIN conn :
          conn'[c] # conn[c] =>
              \A r2 \in (DOMAIN manager.rooms \cup DOMAIN manager.room_data)
                            \ {conn'[c].room_id} :
                  /\ r2 \in DOMAIN manager.room_data
                     => manager'.room_data[r2] = manager.room_data[r2]
                  /\ Sessions(manager', r2) = Sessions(manager, r2)
                  /\ get_room_users(manager', r2) = get_room_users(manager, r2)
                  /\ \A d \in SessionsOf(manager, r2) : inbox'[d] = inbox[d]]_vars

(* ------------------------------------------------------------------ *)
(* Colors in a process that has had visitors                           *)
(* ------------------------------------------------------------------ *)

\* Number of user ids that joined and left room r0 before the scenario.
MaxVisitors == 12

\* Number of client events in the color scenario.
MaxColorEvents == 1

\* the manager after k visitors v1..vk have one after the other joined
\* room r0 and left it: connect and disconnect applied k times
RECURSIVE Visited(_)
Visited(k) ==
    IF k = 0 THEN NewManager
    ELSE LET uid == "v" \o ToString(k)
             m1 == EnsureRoom(Visited(k - 1), "r0", None, 0)
             m2 == Register(m1, "ws0", "r0", uid, "Guest", 0)
         IN  disconnect(m2, "r0", uid).m

\* Colors: Ann (u1) and Bob (u2) join room r1 and a third connection is Cy
\* (u3) or Bob again (a reconnect under his user id), in a process in which
\* no, one, or MaxVisitors user ids were assigned a color before; Bob's
\* first connection closes, and the third connection moves its cursor.
ColorQueries ==
    [c \in {"ws1", "ws2", "ws3"} |->
        CASE c = "ws1" -> {Query("r1", "u1", "Ann", "")}
          [] c = "ws2" -> {Query("r1", "u2", "Bob", "")}
          [] OTHER -> {Query("r1", "u3", "Cy", ""), Query("r1", "u2", "Bob", "")}]

ColorInputs == [c \in {"ws1", "ws2", "ws3"} |-> IF c = "ws3" THEN {Cursor} ELSE {}]

ColorClosers == {"ws2"}

ColorInit ==
    /\ \E k \in {0, 1, MaxVisitors} :
          /\ manager = Visited(k)
          /\ db = IF k = 0 THEN EmptyMap ELSE "r0" :> Row(Visited(k).room_data["r0"], 0)
    /\ conn = [c \in DOMAIN ColorQueries |-> NewTask]
    /\ alive = [c \in DOMAIN ColorQueries |-> TRUE]
    /\ inbox = [c \in DOMAIN ColorQueries |-> <<>>]
    /\ now = 0
    /\ uuids = 0
    /\ events = 0

ColorNext ==
    \E c \in DOMAIN ColorQueries :
        \/ \E q \in ColorQueries[c] : Open(c, q)
        \/ LoadRead(c)
        \/ LoadDone(c)
        \/ Accepted(c)
        \/ BroadcastNext(c)
        \/ \E data \in ColorInputs[c] : events < MaxColorEvents /\ Receive(c, data)
        \/ Disconnected(c)
        \/ SaveBegin(c)
        \/ SaveCommit(c)
        \/ c \in ColorClosers /\ ClientClose(c)

SpecColor == ColorInit /\ [][ColorNext]_vars

\* the message sent to connection d in this step, if one was
SentNow(d) == IF Len(inbox'[d]) = Len(inbox[d]) + 1 THEN Some(Last(inbox'[d])) ELSE None

\* C31: a user id is assigned its color once, when it first appears in
\* the process, as Palette[k mod 12] (counting from 0) where k is the
\* number of user ids assigned before it, and keeps that color ever
\* after; and the your_color of an init sent to a connection of a user
\* id, the color of a user_joined about a user id and the color of a
\* cursor message of a user id are the color assigned to that user id.
C31_ColorAssignedOnce ==
    [][/\ \A u \in DOMAIN manager.user_colors :
             /\ u \in DOMAIN manager'.user_colors
             /\ manager'.user_colors[u] = manager.user_colors[u]
       /\ \A u \in DOMAIN manager'.user_colors \ DOMAIN manager.user_colors :
             manager'.user_colors[u] =
                 Palette[(Cardinality(DOMAIN manager.user_colors) % 12) + 1]
       /\ \A d \in DOMAIN conn :
             SentNow(d) # None =>
                 LET msg == SentNow(d)[1]
                 IN  /\ msg.type = "init"
                        => msg.your_color = manager'.user_colors[conn'[d].user_id]
                     /\ msg.type \in {"user_joined", "cursor"}
                        => msg.color = manager'.user_colors[msg.user_id]]_vars

\* the task of o runs its leave in this step: its receive loop ends with
\* the transport closed and disconnect is called
Leaves(o) == conn[o].pc = "recv" /\ ~alive[o] /\ conn'[o].pc # "recv"

\* C32: when a connection leaves while a newer open connection holds the
\* session of the same user id in the same room (a reconnect), the leave
\* does not remove the newer connection's session and sends no user_left
\* for that user id.
C32_ReconnectSurvivesOldLeave ==
    [][\A o, n \in DOMAIN conn :
          (/\ o # n
           /\ conn[n].room_id = conn[o].room_id
           /\ conn[n].user_id = conn[o].user_id
           /\ Registered(n) /\ Receiving(n)
           /\ Leaves(o))
          => /\ Registered(n)'
             /\ \A d \in DOMAIN conn :
                   SentNow(d) # None =>
                       ~(SentNow(d)[1].type = "user_left"
                         /\ SentNow(d)[1].user_id = conn[n].user_id)]_vars

\* the ids of the strokes in the init message msg
InitStrokeIds(msg) == {msg.strokes[i].id : i \in 1..Len(msg.strokes)}

\* C33: the first message sent to a session that joined is its init: no
\* broadcast of another session's event is delivered to it before, and no
\* stroke reaches it as a stroke broadcast and again inside its init.
C33_InitComesFirst ==
    \A c \in DOMAIN conn :
        (InSession(c) /\ inbox[c] # <<>>)
        => /\ inbox[c][1].type = "init"
           /\ \A i, j \in 1..Len(inbox[c]) :
                  (inbox[c][i].type = "stroke" /\ inbox[c][j].type = "init")
                  => inbox[c][i].stroke.id \notin InitStrokeIds(inbox[c][j])

\* C34: for every session registered in a room, disconnect(room, user)
\* called now does not raise, returns the nickname the session joined
\* with, and leaves the room's active_users equal to the number of
\* sessions that remain, whatever joins and leaves came before, the same
\* user id having joined and left another room included.
C34_DisconnectCompletes ==
    \A r \in DOMAIN manager.rooms :
        \A i \in 1..Len(manager.rooms[r]) :
            LET e == manager.rooms[r][i]
                d == disconnect(manager, r, e.uid)
            IN  /\ ~d.raised
                /\ d.ret = Some(conn[e.ws].nickname)
                /\ d.m.room_stats[r].active_users = Len(d.m.rooms[r])

(* ------------------------------------------------------------------ *)
(* A client that names its strokes                                     *)
(* ------------------------------------------------------------------ *)

\* Number of client events in the scenario of named strokes.
MaxRetryEvents == 2

\* a stroke event that carries its own id
Traced == StrokeOn("layer_0") @@ [id |-> "s1"]

\* Retry: Ann (u1) is in room r1 and a second connection is Bob (u2) or
\* Ann again (a reconnect under her user id); both send a stroke under
\* the id s1, also again after it was sent, the second connection can
\* undo, and Ann's first connection closes.
RetryQueries ==
    [c \in {"ws1", "ws2"} |->
        IF c = "ws1"
        THEN {Query("r1", "u1", "Ann", "")}
        ELSE {Query("r1", "u2", "Bob", ""), Query("r1", "u1", "Ann", "")}]

RetryInputs == [c \in {"ws1", "ws2"} |-> IF c = "ws1" THEN {Traced} ELSE {Traced, Undo}]

RetryClosers == {"ws1"}

RetryInit == InitWith(DOMAIN RetryQueries, {EmptyMap})

RetryNext ==
    \E c \in DOMAIN RetryQueries :
        \/ \E q \in RetryQueries[c] : Open(c, q)
        \/ LoadRead(c)
        \/ LoadDone(c)
        \/ Accepted(c)
        \/ BroadcastNext(c)
        \/ \E data \in RetryInputs[c] : events < MaxRetryEvents /\ Receive(c, data)
        \/ Disconnected(c)
        \/ SaveBegin(c)
        \/ SaveCommit(c)
        \/ c \in RetryClosers /\ ClientClose(c)

SpecRetry == RetryInit /\ [][RetryNext]_vars

\* C35: in every reachable state the ids of the strokes in a room's log
\* are pairwise distinct, so that the stroke_id of a remove_stroke names
\* exactly the stroke that was removed.
C35_StrokeIdsDistinct ==
    \A r \in DOMAIN manager.room_data :
        \A i, j \in 1..Len(manager.room_data[r].strokes) :
            manager.room_data[r].strokes[i].id = manager.room_data[r].strokes[j].id
            => i = j

\* the events that change a room: new stroke, undo, layer change, chat
\* message, timer
Changing ==
    {Traced, StrokeOn("layer_0"), Undo, AddLayer, ClearLayer("layer_0"),
     Chat("hi"), StartTimer(60), StopTimer}

\* the room of c holds a session under c's user id
HasSession(c) == DictHas(Sessions(manager, conn[c].room_id), conn[c].user_id)

\* C36: only a registered session changes its room: when the room holds
\* no session under the user id of a connection any more (it was removed
\* by a leave or after a failed send), no event that arrives on that
\* connection changes the room's strokes, layers, chat or timer.
C36_RemovedSessionChangesNothing ==
    \A c \in DOMAIN conn :
        (Receiving(c) /\ ~HasSession(c))
        => \A data \in Changing :
               Handled(c, data).m.room_data = manager.room_data

====
